---- MODULE Spec2Model ----
(***************************************************************************)
(* A model of litegl's mesh.js: GL.Buffer (a typed array mirrored into a   *)
(* device buffer), GL.Mesh (named vertex and index buffers) and the mesh   *)
(* processors.                                                             *)
(*                                                                         *)
(* JavaScript objects live in heaps addressed by identity: `arrays` (typed *)
(* and plain arrays), `bufs` (GL.Buffer objects), `dev` (WebGL buffer      *)
(* objects) and `meshes` (GL.Mesh objects).  An id is a position in the    *)
(* heap; 0 stands for null/undefined.  Every method is an operator from a  *)
(* heap record to a heap record; a throw sets the field exc and keeps the  *)
(* mutations made before it, as in JavaScript.  loads holds the requests of *)
(* Mesh.fromURL: the mesh returned, its property ready, whether the fetch  *)
(* is pending and the arguments on_complete was called with.  dynamic      *)
(* holds the fields a DynamicMesh has besides those of a mesh.             *)
(*                                                                         *)
(* A JavaScript number is held in fixed point: the integer n stands for    *)
(* n / FScale.  Elements of the integer typed arrays are held as integers  *)
(* of their width.                                                         *)
(***************************************************************************)
EXTENDS Integers, Sequences, FiniteSets, TLC

VARIABLES arrays, bufs, dev, meshes, calls, console, last, steps, loads, dynamic

vars == <<arrays, bufs, dev, meshes, calls, console, last, steps, loads, dynamic>>

(***************************************************************************)
(* Bounds of the model.                                                    *)
(***************************************************************************)
FScale == 2000
MaxSteps == 2

Null == 0
One == FScale
Half == FScale \div 2

(***************************************************************************)
(* Numbers.                                                                *)
(***************************************************************************)
Abs(x) == IF x < 0 THEN -x ELSE x

Sign(x) == IF x < 0 THEN -1 ELSE 1

\* a / b rounded toward zero (b > 0)
TruncDiv(a, b) == Sign(a) * (Abs(a) \div b)

\* a / b rounded to the nearest integer (b > 0)
RoundDiv(a, b) == Sign(a) * ((2 * Abs(a) + b) \div (2 * b))

\* the product and the quotient of two fixed-point numbers
FMul(a, b) == RoundDiv(a * b, FScale)

FDiv(a, b) == Sign(b) * RoundDiv(a * FScale, Abs(b))

RECURSIVE ISqrtIn(_, _, _)
ISqrtIn(n, lo, hi) ==
    IF lo >= hi THEN lo
    ELSE LET mid == (lo + hi + 1) \div 2
         IN  IF mid * mid <= n THEN ISqrtIn(n, mid, hi) ELSE ISqrtIn(n, lo, mid - 1)

\* the integer square root, floor(sqrt(n)), for 0 <= n < 46340^2
ISqrt(n) == ISqrtIn(n, 0, 46340)

\* the numbers that are not finite
PInf == 2 ^ 30

NInf == -(2 ^ 30)

NaN == 2 ^ 30 + 1

\* undefined, as an element of a plain array
Undefined == 2 ^ 30 + 2

isNaN(x) == x = NaN \/ x = Undefined

IsFinite(x) == NInf < x /\ x < PInf

NNeg(a) == IF a = NaN THEN NaN ELSE IF a = PInf THEN NInf ELSE IF a = NInf THEN PInf ELSE -a

\* a + b
NAdd(a, b) ==
    IF a = NaN \/ b = NaN THEN NaN
    ELSE IF IsFinite(a) /\ IsFinite(b) THEN a + b
    ELSE IF IsFinite(a) THEN b
    ELSE IF IsFinite(b) \/ a = b THEN a
    ELSE NaN

\* a - b
NSub(a, b) == NAdd(a, NNeg(b))

\* a * b
NMul(a, b) ==
    IF a = NaN \/ b = NaN THEN NaN
    ELSE IF IsFinite(a) /\ IsFinite(b) THEN FMul(a, b)
    ELSE IF a = 0 \/ b = 0 THEN NaN
    ELSE IF Sign(a) = Sign(b) THEN PInf ELSE NInf

\* a / b
NDiv(a, b) ==
    IF a = NaN \/ b = NaN THEN NaN
    ELSE IF IsFinite(a) /\ IsFinite(b)
    THEN IF b # 0 THEN FDiv(a, b)
         ELSE IF a = 0 THEN NaN ELSE IF a > 0 THEN PInf ELSE NInf
    ELSE IF IsFinite(a) THEN 0
    ELSE IF ~IsFinite(b) THEN NaN
    ELSE IF Sign(a) = Sign(b) THEN PInf ELSE NInf

\* a < b and a > b: false when either is NaN
NLess(a, b) == a # NaN /\ b # NaN /\ a < b

NGreater(a, b) == NLess(b, a)

\* Math.abs
NAbs(a) == IF a = NaN THEN NaN ELSE IF a = NInf THEN PInf ELSE Abs(a)

\* Math.min and Math.max
Math_min(a, b) == IF a = NaN \/ b = NaN THEN NaN ELSE IF a < b THEN a ELSE b

Math_max(a, b) == IF a = NaN \/ b = NaN THEN NaN ELSE IF a > b THEN a ELSE b

(***************************************************************************)
(* Typed arrays.  An array of the heap is [kind, vals].  The kind "Array"  *)
(* is a plain JavaScript array of numbers.                                 *)
(***************************************************************************)
IntKinds == {"Int8Array", "Uint8Array", "Uint8ClampedArray", "Int16Array",
             "Uint16Array", "Int32Array", "Uint32Array"}

FloatKinds == {"Float32Array", "Float64Array"}

TypedKinds == IntKinds \cup FloatKinds

\* the kinds upload() has a device type for, mesh.js 140-151
SupportedKinds == IntKinds \cup {"Float32Array"}

BYTES_PER_ELEMENT(kind) ==
    CASE kind \in {"Int8Array", "Uint8Array", "Uint8ClampedArray"} -> 1
      [] kind \in {"Int16Array", "Uint16Array"} -> 2
      [] kind = "Float64Array" -> 8
      [] OTHER -> 4

\* an integer reduced to the width of an integer kind (a Uint32 element of
\* 2^31 or more is held as the Int32 of the same bits)
Wrap(kind, n) ==
    CASE kind = "Uint8Array" -> n % 256
      [] kind = "Uint8ClampedArray" -> IF n < 0 THEN 0 ELSE IF n > 255 THEN 255 ELSE n
      [] kind = "Int8Array" -> ((n + 128) % 256) - 128
      [] kind = "Uint16Array" -> n % 65536
      [] kind = "Int16Array" -> ((n + 32768) % 65536) - 32768
      [] OTHER -> n

\* a JavaScript number stored as an element of an array of this kind
NumToElem(kind, x) ==
    IF kind = "Array" THEN x
    ELSE IF kind \notin IntKinds THEN (IF x = Undefined THEN NaN ELSE x)
    ELSE IF ~IsFinite(x) THEN (IF kind = "Uint8ClampedArray" /\ x = PInf THEN 255 ELSE 0)
    ELSE Wrap(kind, TruncDiv(x, FScale))

\* an element of an array of this kind read as a JavaScript number
ElemToNum(kind, e) ==
    IF kind \in IntKinds THEN e * FScale ELSE e

\* the elements of array a as JavaScript numbers
Nums(a) == [i \in 1..Len(a.vals) |-> ElemToNum(a.kind, a.vals[i])]

\* new kind(nums): a fresh array of this kind holding the numbers
TypedOf(kind, nums) ==
    [kind |-> kind, vals |-> [i \in 1..Len(nums) |-> NumToElem(kind, nums[i])]]

\* new kind(n): n zeros
TypedZeros(kind, n) == [kind |-> kind, vals |-> [i \in 1..n |-> 0]]

\* the bytes of one element, little endian, two's complement
ElemBytes(kind, e) ==
    LET b0 == e % 256
        b1 == (e \div 256) % 256
        b2 == (e \div 65536) % 256
        b3 == (e \div 16777216) % 256
        sx == IF e < 0 THEN 255 ELSE 0
    IN  CASE BYTES_PER_ELEMENT(kind) = 1 -> <<b0>>
          [] BYTES_PER_ELEMENT(kind) = 2 -> <<b0, b1>>
          [] BYTES_PER_ELEMENT(kind) = 8 -> <<b0, b1, b2, b3, sx, sx, sx, sx>>
          [] OTHER -> <<b0, b1, b2, b3>>

\* the element held in the bytes bs[at+1 .. at+BYTES_PER_ELEMENT]
BytesElem(kind, bs, at) ==
    LET n == BYTES_PER_ELEMENT(kind)
        top == IF bs[at + 4] >= 128 THEN bs[at + 4] - 256 ELSE bs[at + 4]
    IN  CASE n = 1 -> Wrap(kind, bs[at + 1])
          [] n = 2 -> Wrap(kind, bs[at + 1] + 256 * bs[at + 2])
          [] OTHER -> bs[at + 1] + 256 * bs[at + 2] + 65536 * bs[at + 3] + 16777216 * top

RECURSIVE ToBytesFrom(_, _)
ToBytesFrom(a, i) ==
    IF i > Len(a.vals) THEN <<>>
    ELSE ElemBytes(a.kind, a.vals[i]) \o ToBytesFrom(a, i + 1)

\* the bytes of the ArrayBuffer under a typed array
ToBytes(a) == ToBytesFrom(a, 1)

byteLength(a) == Len(a.vals) * BYTES_PER_ELEMENT(a.kind)

\* the typed array of this kind over the bytes bs
FromBytes(kind, bs) ==
    [kind |-> kind,
     vals |-> [i \in 1..(Len(bs) \div BYTES_PER_ELEMENT(kind)) |->
                  BytesElem(kind, bs, (i - 1) * BYTES_PER_ELEMENT(kind))]]

(***************************************************************************)
(* The heap record and the device.                                         *)
(***************************************************************************)
Heap == [arrays |-> arrays, bufs |-> bufs, dev |-> dev, meshes |-> meshes,
         calls |-> calls, console |-> console, exc |-> "", ret |-> Null]

Throw(h, msg) == [h EXCEPT !.exc = msg]

Return(h, v) == [h EXCEPT !.ret = v]

\* console.log, console.warn and console.error: the message is added to the
\* lines written to the console
Log(h, msg) == [h EXCEPT !.console = Append(@, msg)]

\* the context global.gl, used when no context is passed
GlobalGl == 1

\* the fields of a DynamicMesh when the application has made none
NoDynamic == [mesh |-> Null, current_pos |-> 0, max_size |-> 0, must_update |-> FALSE,
              vertex_data |-> Null, normal_data |-> Null, coord_data |-> Null,
              color_data |-> Null]

\* a fresh array on the heap; ret is its id
AllocArray(h, a) ==
    [h EXCEPT !.arrays = Append(h.arrays, a), !.ret = Len(h.arrays) + 1]

GlCall(h, fn, d, start, size) ==
    [h EXCEPT !.calls = Append(h.calls, [fn |-> fn, buf |-> d, start |-> start, size |-> size])]

\* gl.createBuffer(): a fresh WebGL buffer object; ret is its id
createBuffer(h, gl) ==
    LET h1 == GlCall(h, "createBuffer", Len(h.dev) + 1, 0, 0)
    IN  [h1 EXCEPT !.dev = Append(h.dev, [gl |-> gl, length |-> 0, spacing |-> 0,
                                          gl_type |-> "", deleted |-> FALSE]),
                   !.ret = Len(h.dev) + 1]

\* gl.bindBuffer(target, d); gl.bufferData(target, data, usage)
bufferData(h, d, a) ==
    GlCall(GlCall(h, "bindBuffer", d, 0, 0), "bufferData", d, 0, byteLength(a))

\* gl.bindBuffer(target, d); gl.bufferSubData(target, start, view)
bufferSubData(h, d, start, size) ==
    GlCall(GlCall(h, "bindBuffer", d, 0, 0), "bufferSubData", d, start, size)

\* gl.deleteBuffer(d)
deleteBuffer(h, d) ==
    LET h1 == GlCall(h, "deleteBuffer", d, 0, 0)
    IN  IF d = Null THEN h1 ELSE [h1 EXCEPT !.dev[d].deleted = TRUE]

(***************************************************************************)
(* GL.Buffer, mesh.js 35-298.                                              *)
(***************************************************************************)
\* the device type upload() records for a kind of typed array
GlType(kind) ==
    CASE kind = "Int8Array" -> "BYTE"
      [] kind \in {"Uint8Array", "Uint8ClampedArray"} -> "UNSIGNED_BYTE"
      [] kind = "Int16Array" -> "SHORT"
      [] kind = "Uint16Array" -> "UNSIGNED_SHORT"
      [] kind = "Int32Array" -> "INT"
      [] kind = "Uint32Array" -> "UNSIGNED_INT"
      [] OTHER -> "FLOAT"

\* Buffer.prototype.upload on buffer b
upload(h, b) ==
    LET B == h.bufs[b]
        spacing == IF B.spacing # 0 THEN B.spacing ELSE 3
    IN  IF B.gl = Null THEN h
        ELSE IF B.data = Null THEN Throw(h, "No data supplied")
        ELSE IF h.arrays[B.data].kind = "Array" THEN Throw(h, "Buffers must be typed arrays")
        ELSE LET data == h.arrays[B.data]
                 h1 == IF B.buffer # Null THEN h
                       ELSE LET c == createBuffer(h, B.gl)
                            IN  [c EXCEPT !.bufs[b].buffer = c.ret, !.ret = h.ret]
                 d == h1.bufs[b].buffer
                 h2 == [h1 EXCEPT !.dev[d].length = Len(data.vals),
                                  !.dev[d].spacing = spacing]
                 widen == B.target = "ARRAY_BUFFER"
                          /\ GlType(data.kind) \in {"INT", "UNSIGNED_INT"}
                 h3 == [(IF widen
                         THEN Log(h2, "WebGL does not support UINT32 or INT32 as vertex buffer types, converting to FLOAT")
                         ELSE h2)
                           EXCEPT !.dev[d].gl_type =
                                     IF widen THEN "FLOAT" ELSE GlType(data.kind)]
                 sent == IF widen THEN TypedOf("Float32Array", Nums(data)) ELSE data
             IN  IF data.kind \notin SupportedKinds
                 THEN Throw(h2, "unsupported buffer type")
                 ELSE bufferData(h3, d, sent)

\* new GL.Buffer(target, data, spacing, stream_type, gl); ret is the new buffer.
\* gl is a context, GlobalGl for an omitted argument, Null for null.
Buffer(h, target, data, spacing, gl) ==
    LET b == Len(h.bufs) + 1
        h1 == [h EXCEPT !.bufs = Append(h.bufs,
                   [gl |-> gl, buffer |-> Null, target |-> target, attribute |-> "",
                    normalize |-> FALSE, data |-> data,
                    spacing |-> IF spacing # 0 THEN spacing ELSE 3, name |-> ""]),
                        !.ret = b]
    IN  IF data # Null /\ gl # Null
        THEN [upload(h1, b) EXCEPT !.ret = b]
        ELSE h1

\* Buffer.prototype.uploadRange(start, size), in bytes
uploadRange(h, b, start, size) ==
    LET B == h.bufs[b]
    IN  IF B.data = Null THEN Throw(h, "No data stored in this buffer")
        ELSE IF h.arrays[B.data].kind = "Array" THEN Throw(h, "Buffers must be typed arrays")
        ELSE IF start + size > byteLength(h.arrays[B.data]) THEN Throw(h, "RangeError")
        ELSE IF B.gl = Null THEN Throw(h, "TypeError")
        ELSE bufferSubData(h, B.buffer, start, size)

\* bytes with the bytes patch written over them from position at (0-based)
PatchBytes(bytes, patch, at) ==
    [i \in 1..Len(bytes) |->
        IF i > at /\ i <= at + Len(patch) THEN patch[i - at] ELSE bytes[i]]

\* setData without its capacity check
notBigEnough_never(old, new) == FALSE

\* the capacity check of setData, mesh.js 185
notBigEnough(old, new) == Len(old.vals) < Len(new.vals)

\* lines 190-201 of setData on a buffer that has storage: new is the array
\* given and whole the array over all of new.buffer, which is new itself
\* unless new is a view of a part of it. new_data_view is built from
\* data.buffer.byteOffset, which no ArrayBuffer has, and
\* data.buffer.byteLength: it is the bytes of whole.
writeData(h, b, new, whole, offset) ==
    LET B == h.bufs[b]
        old == h.arrays[B.data]
    IN  IF old.kind = "Array"
        THEN IF Len(old.vals) = Len(new.vals) THEN Throw(h, "TypeError")
             ELSE IF offset + byteLength(whole) > 0 THEN Throw(h, "RangeError")
             ELSE uploadRange(h, b, offset, 0)
        ELSE IF Len(old.vals) = Len(new.vals)
        THEN upload([h EXCEPT !.arrays[B.data] = TypedOf(old.kind, Nums(new))], b)
        ELSE IF offset + byteLength(whole) > byteLength(old)
        THEN Throw(h, "RangeError")
        ELSE uploadRange(
               [h EXCEPT !.arrays[B.data] =
                   FromBytes(old.kind, PatchBytes(ToBytes(old), ToBytes(whole), offset))],
               b, offset, byteLength(whole))

\* Buffer.prototype.setData(data, offset): data is an array of the heap
setData(h, b, data, offset) ==
    LET B == h.bufs[b]
        new == h.arrays[data]
    IN  IF new.kind = "Array" THEN Throw(h, "Data must be typed array")
        ELSE IF B.data = Null
        THEN upload([h EXCEPT !.bufs[b].data = data], b)
        ELSE IF notBigEnough(h.arrays[B.data], new)
        THEN Throw(h, "buffer is not big enough, you cannot set data to a smaller buffer")
        ELSE IF B.data = data THEN h
        ELSE writeData(h, b, new, new, offset)

\* data.subarray(begin, end): a view of the elements begin..end-1 of data
ViewOf(a, begin, end) == [kind |-> a.kind, vals |-> SubSeq(a.vals, begin + 1, end)]

\* Buffer.prototype.setData( data.subarray(begin, end), offset ) on a buffer
\* that has storage: the view is a new object, never the storage itself, and
\* the buffer does not keep it
setData_subarray(h, b, data, begin, end, offset) ==
    LET B == h.bufs[b]
        new == ViewOf(h.arrays[data], begin, end)
    IN  IF notBigEnough(h.arrays[B.data], new)
        THEN Throw(h, "buffer is not big enough, you cannot set data to a smaller buffer")
        ELSE writeData(h, b, new, h.arrays[data], offset)

\* Buffer.prototype.clone(share); ret is the clone
Buffer_clone(h, b, share) ==
    LET B == h.bufs[b]
        h1 == Buffer(h, "", Null, 0, GlobalGl)
        c == h1.ret
    IN  IF share
        THEN [h1 EXCEPT !.bufs[c] = B]
        ELSE LET h2 == [h1 EXCEPT
                          !.bufs[c].target = IF B.target # "" THEN B.target ELSE @,
                          !.bufs[c].gl = IF B.gl # Null THEN B.gl ELSE @,
                          !.bufs[c].spacing = IF B.spacing # 0 THEN B.spacing ELSE @]
             IN  IF B.data # Null
                 THEN Throw(h2, "TypeError")   \* new global[ this.data.constructor ]
                 ELSE h2

\* getClassName(obj) for a typed array: the name of its class
getClassName(a) == a.kind

\* TypedArray.prototype.toJSON: the elements as a plain array of numbers
typedToArray(a) == Nums(a)

\* Buffer.prototype.toJSON; isnull stands for the null it returns without data
toJSON(h, b) ==
    LET B == h.bufs[b]
    IN  IF B.data = Null
        THEN [isnull |-> TRUE, data_type |-> "", data |-> <<>>, target |-> "",
              attribute |-> "", spacing |-> 0]
        ELSE [isnull |-> FALSE,
              data_type |-> getClassName(h.arrays[B.data]),
              data |-> typedToArray(h.arrays[B.data]),
              target |-> B.target,
              attribute |-> B.attribute,
              spacing |-> B.spacing]

\* fromJSON ignoring the data_type tag
fromJSON_untagged(h, b, o) ==
    LET h1 == AllocArray(h, TypedOf("Float32Array", o.data))
        h2 == [h1 EXCEPT !.bufs[b].data = h1.ret,
                         !.bufs[b].target = o.target,
                         !.bufs[b].spacing = IF o.spacing # 0 THEN o.spacing ELSE 3,
                         !.bufs[b].attribute = o.attribute,
                         !.ret = h.ret]
    IN  upload(h2, b)

\* Buffer.prototype.fromJSON(o) on buffer b, o a non-null object
fromJSON(h, b, o) ==
    LET data_type == IF o.data_type \in TypedKinds THEN o.data_type ELSE "Float32Array"
        h1 == AllocArray(h, TypedOf(data_type, o.data))
        h2 == [h1 EXCEPT !.bufs[b].data = h1.ret,
                         !.bufs[b].target = o.target,
                         !.bufs[b].spacing = IF o.spacing # 0 THEN o.spacing ELSE 3,
                         !.bufs[b].attribute = o.attribute,
                         !.ret = h.ret]
    IN  upload(h2, b)

\* Buffer.prototype.delete
Buffer_delete(h, b) ==
    LET B == h.bufs[b]
    IN  IF B.gl = Null THEN Throw(h, "TypeError")
        ELSE [deleteBuffer(h, B.buffer) EXCEPT !.bufs[b].buffer = Null]

(***************************************************************************)
(* GL.Mesh, mesh.js 309-775.  A mesh is [gl, vertexBuffers, indexBuffers,  *)
(* bones, hasBones, groups, bounding].  vertexBuffers and indexBuffers are *)
(* JavaScript objects used as maps: sequences of [name, buf] in insertion  *)
(* order, which is the order for..in visits them in.                       *)
(***************************************************************************)
MapHas(map, k) == \E i \in 1..Len(map) : map[i].name = k

\* map[k], Null when absent
MapGet(map, k) ==
    IF MapHas(map, k) THEN map[CHOOSE i \in 1..Len(map) : map[i].name = k].buf ELSE Null

\* map[k] = v
MapPut(map, k, v) ==
    IF MapHas(map, k)
    THEN [i \in 1..Len(map) |-> IF map[i].name = k THEN [name |-> k, buf |-> v] ELSE map[i]]
    ELSE Append(map, [name |-> k, buf |-> v])

IsNot(k, e) == e.name # k

\* delete map[k]
MapDel(map, k) == SelectSeq(map, LAMBDA e : IsNot(k, e))

MapNames(map) == {map[i].name : i \in 1..Len(map)}

\* Mesh.common_buffers, mesh.js 341-356; spacing 0 stands for a name not in the table
CommonNames == {"vertices", "vertices2D", "normals", "coords", "coords1", "coords2",
                "colors", "tangents", "bone_indices", "weights", "extra", "extra2",
                "extra3", "extra4"}

common_spacing(name) ==
    CASE name \in {"vertices", "normals", "tangents", "extra3"} -> 3
      [] name \in {"vertices2D", "coords", "coords1", "coords2", "extra2"} -> 2
      [] name \in {"colors", "bone_indices", "weights", "extra4"} -> 4
      [] name = "extra" -> 1
      [] OTHER -> 0

common_attribute(name) ==
    CASE name = "vertices" -> "a_vertex"
      [] name = "vertices2D" -> "a_vertex2D"
      [] name = "normals" -> "a_normal"
      [] name = "coords" -> "a_coord"
      [] name = "coords1" -> "a_coord1"
      [] name = "coords2" -> "a_coord2"
      [] name = "colors" -> "a_color"
      [] name = "tangents" -> "a_tangent"
      [] name \in CommonNames -> "a_" \o name
      [] OTHER -> ""

common_normalize(name) == name \in {"normals", "colors", "weights"}

\* the type of the table entry, Mesh.default_datatype when it has none
common_type(name) == IF name = "bone_indices" THEN "Uint8Array" ELSE "Float32Array"

\* 256*256, the vertex count above which indices take 32 bits
IndexLimit == 65536

\* the class of an index buffer built from a plain array, from the length of
\* the "vertices" data: num_vertices = length / 3 > 256*256
IndexKind(vertices_length) ==
    IF vertices_length > 3 * IndexLimit THEN "Uint32Array" ELSE "Uint16Array"

\* the context a mesh hands to its buffers: this.gl, undefined for a mesh made
\* with gl null, which GL.Buffer replaces by global.gl
MeshGl(M) == IF M.gl = Null THEN GlobalGl ELSE M.gl

\* Mesh.prototype.getNumVertices, as a number
getNumVertices(h, m) ==
    LET b == MapGet(h.meshes[m].vertexBuffers, "vertices")
    IN  IF b = Null THEN 0
        ELSE Len(h.arrays[h.bufs[b].data].vals) \div h.bufs[b].spacing

\* lines 532-546: the buffer h2.ret just constructed is attached to the mesh
AttachVertexBuffer(h2, m, name, attr, normalize) ==
    IF h2.exc # "" THEN h2
    ELSE [h2 EXCEPT !.meshes[m].vertexBuffers = MapPut(@, name, h2.ret),
                    !.bufs[h2.ret].name = name,
                    !.bufs[h2.ret].attribute = attr,
                    !.bufs[h2.ret].normalize = normalize]

\* lines 528-546, h1.ret being buffer_data
VertexBufferOf(h1, m, name, attr, spacing) ==
    IF h1.arrays[h1.ret].kind = "Array" THEN Throw(h1, "Buffer data MUST be typed array")
    ELSE AttachVertexBuffer(
             Buffer(h1, "ARRAY_BUFFER", h1.ret, spacing, MeshGl(h1.meshes[m])),
             m, name, attr,
             (h1.arrays[h1.ret].kind \in IntKinds \ {"Uint8ClampedArray"})
                 /\ common_normalize(name))

\* lines 512-526, spacing being the spacing of line 518
SizedVertexBuffer(h, m, name, attr, spacing, buffer_data) ==
    IF buffer_data = Null /\ getNumVertices(h, m) = 0
    THEN Throw(h, "Cannot create an empty buffer in a mesh without vertices")
    ELSE VertexBufferOf(
             IF buffer_data # Null THEN Return(h, buffer_data)
             ELSE AllocArray(h, TypedZeros("Float32Array", getNumVertices(h, m) * spacing)),
             m, name, attr, spacing)

\* Mesh.prototype.createVertexBuffer( name, attribute, buffer_spacing, buffer_data );
\* buffer_data is an array of the heap or Null; ret is the new buffer
createVertexBuffer(h, m, name, attribute, buffer_spacing, buffer_data) ==
    IF attribute = "" /\ common_attribute(name) = ""
    THEN Throw(h, "Buffer added to mesh without attribute name")
    ELSE SizedVertexBuffer(h, m, name,
             IF attribute = "" THEN common_attribute(name) ELSE attribute,
             IF buffer_spacing = 0 /\ name \in CommonNames
             THEN common_spacing(name) ELSE buffer_spacing,
             buffer_data)

\* Mesh.prototype.updateVertexBuffer( name, attribute, buffer_spacing, buffer_data )
updateVertexBuffer(h, m, name, attribute, buffer_spacing, buffer_data) ==
    LET b == MapGet(h.meshes[m].vertexBuffers, name)
    IN  IF b = Null THEN Log(h, "buffer not found: " \o name)
        ELSE IF Len(h.arrays[buffer_data].vals) = 0 THEN h
        ELSE upload([h EXCEPT !.bufs[b].attribute = attribute,
                              !.bufs[b].spacing = buffer_spacing,
                              !.bufs[b].data = buffer_data], b)

\* the cast of createIndexBuffer, mesh.js 616-627; ret is the array to attach
castIndices(h, m, buffer_data) ==
    LET vertices == MapGet(h.meshes[m].vertexBuffers, "vertices")
    IN  IF h.arrays[buffer_data].kind = "Array" /\ vertices # Null
        THEN AllocArray(h, TypedOf(IndexKind(Len(h.arrays[h.bufs[vertices].data].vals)),
                                   Nums(h.arrays[buffer_data])))
        ELSE Return(h, buffer_data)

\* line 629, h1.ret being buffer_data after the cast
AttachIndexBuffer(h2, m, name) ==
    IF h2.exc # "" THEN h2
    ELSE [h2 EXCEPT !.meshes[m].indexBuffers = MapPut(@, name, h2.ret)]

IndexBufferOf(h1, m, name) ==
    AttachIndexBuffer(Buffer(h1, "ELEMENT_ARRAY_BUFFER", h1.ret, 0, MeshGl(h1.meshes[m])),
                      m, name)

\* Mesh.prototype.createIndexBuffer( name, buffer_data ); ret is the new buffer
createIndexBuffer(h, m, name, buffer_data) ==
    IndexBufferOf(castIndices(h, m, buffer_data), m, name)

\* A payload of addBuffers is [name, form, ref]: form "buffer" is a GL.Buffer
\* (ref a buffer), "array" a typed array or a flat plain array of numbers and
\* "nested" a plain array of tuples, held flattened (ref an array).

\* the array a payload comes down to before the cast (lines 418-429 and 466-477):
\* [exc, id, plain, nums, linearized]
PayloadData(h, p, isIndex) ==
    LET id == IF p.form = "buffer" THEN h.bufs[p.ref].data ELSE p.ref
        empty == id # Null /\ (\/ Len(h.arrays[id].vals) = 0
                               \/ h.arrays[id].vals[1] = Undefined)
        linearized == \/ p.form = "nested"
                      \/ p.form = "array" /\ empty
                      \/ p.form = "buffer" /\ isIndex /\ empty
    IN  IF id = Null
        THEN [exc |-> "TypeError", id |-> Null, plain |-> FALSE, nums |-> <<>>,
              linearized |-> FALSE]
        ELSE [exc |-> "", id |-> id,
              plain |-> linearized \/ h.arrays[id].kind = "Array",
              nums |-> Nums(h.arrays[id]),
              linearized |-> linearized]

\* data.length / num_vertices, where num_vertices is vertices_length / 3
InferredSpacing(length, vertices_length) ==
    IF vertices_length = 0 THEN 0 ELSE (3 * length) \div vertices_length

\* lines 441-457 of the vertex loop, h1.ret being the data after the cast and
\* stored the buffers the mesh had when the call started
StoreVertexPayload(h1, stored, m, name, nv) ==
    [(IF MapHas(stored, name)
      THEN updateVertexBuffer(h1, m, name,
               IF common_attribute(name) # "" THEN common_attribute(name) ELSE "a_" \o name,
               IF common_spacing(name) # 0 THEN common_spacing(name)
               ELSE InferredSpacing(Len(h1.arrays[h1.ret].vals), nv),
               h1.ret)
      ELSE createVertexBuffer(h1, m, name,
               IF common_attribute(name) # "" THEN common_attribute(name) ELSE "a_" \o name,
               IF common_spacing(name) # 0 THEN common_spacing(name)
               ELSE InferredSpacing(Len(h1.arrays[h1.ret].vals), nv),
               h1.ret))
     EXCEPT !.ret = nv]

\* lines 431-439: the cast of a plain array, and the count of vertices
CastVertexPayload(h, m, name, d, nv3) ==
    IF d.exc # "" THEN Throw(h, d.exc)
    ELSE StoreVertexPayload(
             IF d.plain THEN AllocArray(h, TypedOf(common_type(name), d.nums))
             ELSE Return(h, d.id),
             h.meshes[m].vertexBuffers, m, name,
             IF name = "vertices" THEN Len(d.nums) ELSE nv3)

\* one turn of the vertex loop of addBuffers, lines 412-458; ret is the length
\* of the "vertices" data seen so far (3 * num_vertices)
AddVertexPayload(h, m, p, nv3) ==
    CastVertexPayload(h, m, p.name, PayloadData(h, p, FALSE), nv3)

\* the loop goes on from the payload after the i-th
RECURSIVE AddVertexPayloads(_, _, _, _, _)
NextVertexPayload(h1, m, pays, i) ==
    IF h1.exc # "" THEN h1 ELSE AddVertexPayloads(h1, m, pays, i + 1, h1.ret)

AddVertexPayloads(h, m, pays, i, nv3) ==
    IF i > Len(pays) THEN Return(h, nv3)
    ELSE NextVertexPayload(AddVertexPayload(h, m, pays[i], nv3), m, pays, i)

\* the name createIndexBuffer is called with at line 488: the loop that
\* linearizes reuses the variable i that holds the key
IndexName(name, d) ==
    IF d.linearized THEN (IF Len(d.nums) = 0 THEN "0" ELSE "10000") ELSE name

\* lines 479-488 of the index loop
CastIndexPayload(h, m, name, d, nv3) ==
    IF d.exc # "" THEN Throw(h, d.exc)
    ELSE IndexBufferOf(
             castIndices(IF d.plain THEN AllocArray(h, TypedOf(IndexKind(nv3), d.nums))
                         ELSE Return(h, d.id),
                         m, IF d.plain THEN Len(h.arrays) + 1 ELSE d.id),
             m, IndexName(name, d))

\* one turn of the index loop of addBuffers, lines 461-489
AddIndexPayload(h, m, p, nv3) ==
    CastIndexPayload(h, m, p.name, PayloadData(h, p, TRUE), nv3)

RECURSIVE AddIndexPayloads(_, _, _, _, _)
NextIndexPayload(h1, m, pays, i, nv3) ==
    IF h1.exc # "" THEN h1 ELSE AddIndexPayloads(h1, m, pays, i + 1, nv3)

AddIndexPayloads(h, m, pays, i, nv3) ==
    IF i > Len(pays) THEN h
    ELSE NextIndexPayload(AddIndexPayload(h, m, pays[i], nv3), m, pays, i, nv3)

\* the length of the "vertices" data of a mesh, 0 when it has none (line 409)
VerticesLength(h, m) ==
    LET vertices == MapGet(h.meshes[m].vertexBuffers, "vertices")
    IN  IF vertices = Null THEN 0 ELSE Len(h.arrays[h.bufs[vertices].data].vals)

\* the index loop of addBuffers run on the heap the vertex loop left
AddIndexBuffers(h1, m, indexbuffers) ==
    IF h1.exc # "" THEN h1 ELSE AddIndexPayloads(h1, m, indexbuffers, 1, h1.ret)

\* Mesh.prototype.addBuffers( vertexbuffers, indexbuffers ); line 410 reads
\* the length of the data of "vertices", a TypeError when the data is null
addBuffers(h, m, vertexbuffers, indexbuffers) ==
    IF /\ MapHas(h.meshes[m].vertexBuffers, "vertices")
       /\ h.bufs[MapGet(h.meshes[m].vertexBuffers, "vertices")].data = Null
    THEN Throw(h, "TypeError")
    ELSE AddIndexBuffers(AddVertexPayloads(h, m, vertexbuffers, 1, VerticesLength(h, m)),
                         m, indexbuffers)

Zero3 == <<0, 0, 0>>

\* BBox.create(): center, half-size, min, max and radius of the box, zeros
BBox_create == [center |-> Zero3, halfsize |-> Zero3, min |-> Zero3, max |-> Zero3,
                radius |-> 0]

\* new GL.Mesh( vertexbuffers, indexbuffers, options, gl ): options carries the
\* groups and the bones mergeMeshes passes; ret is the new mesh
WithOptions(h2, m, options) ==
    IF h2.exc # "" THEN h2
    ELSE [h2 EXCEPT !.meshes[m].hasBones = options.hasBones,
                    !.meshes[m].bones = options.bones,
                    !.meshes[m].groups = options.groups,
                    !.ret = m]

Mesh(h, vertexbuffers, indexbuffers, options, gl) ==
    WithOptions(
        addBuffers([h EXCEPT !.meshes = Append(h.meshes,
                       [gl |-> gl, vertexBuffers |-> <<>>, indexBuffers |-> <<>>,
                        hasBones |-> FALSE, bones |-> <<>>, groups |-> <<>>,
                        bounding |-> BBox_create])],
                   Len(h.meshes) + 1, vertexbuffers, indexbuffers),
        Len(h.meshes) + 1, options)

NoOptions == [hasBones |-> FALSE, bones |-> <<>>, groups |-> <<>>]

\* the loops of lines 696-700 and 703-707 from the k-th buffer of the map on
RECURSIVE DeleteEach(_, _, _)
DeleteEach(h, map, k) ==
    IF k > Len(map) \/ h.exc # "" THEN h
    ELSE DeleteEach(Buffer_delete(h, map[k].buf), map, k + 1)

\* line 708 is reached when no delete() of the second loop threw
ClearIndexBuffers(h2, m) ==
    IF h2.exc # "" THEN h2 ELSE [h2 EXCEPT !.meshes[m].indexBuffers = <<>>, !.ret = Null]

\* the second loop of deleteBuffers, lines 701-707
DeleteIndexEach(h1, m) ==
    IF h1.exc # "" THEN h1
    ELSE DeleteEach([h1 EXCEPT !.meshes[m].vertexBuffers = <<>>], h1.meshes[m].indexBuffers, 1)

\* Mesh.prototype.deleteBuffers(), which is also Mesh.prototype.delete
deleteBuffers(h, m) ==
    ClearIndexBuffers(DeleteIndexEach(DeleteEach(h, h.meshes[m].vertexBuffers, 1), m), m)

\* new b.data.constructor( b.data ) for the buffers of a map from the k-th on,
\* lines 753-762; ret is the list of payloads.  The copy of a plain array is an
\* array that holds the array, which addBuffers linearizes.
RECURSIVE ClonedPayloads(_, _, _, _)
ClonedPayloads(h, map, k, pays) ==
    IF k > Len(map) THEN Return(h, pays)
    ELSE IF h.bufs[map[k].buf].data = Null THEN Throw(h, "TypeError")
    ELSE ClonedPayloads(
             AllocArray(h, h.arrays[h.bufs[map[k].buf].data]), map, k + 1,
             Append(pays, [name |-> map[k].name,
                           form |-> IF h.arrays[h.bufs[map[k].buf].data].kind = "Array"
                                    THEN "nested" ELSE "array",
                           ref |-> Len(h.arrays) + 1]))

\* line 764, h2.ret being the payloads ibs and vbs the payloads of the vertex
\* buffers
CloneMesh(h2, vbs, gl) ==
    IF h2.exc # "" THEN h2 ELSE Mesh(h2, vbs, h2.ret, NoOptions, gl)

\* lines 758-762, h1.ret being the payloads vbs
CloneIndexBuffers(h1, m, gl) ==
    IF h1.exc # "" THEN h1
    ELSE CloneMesh(ClonedPayloads(h1, h1.meshes[m].indexBuffers, 1, <<>>), h1.ret, gl)

\* Mesh.prototype.clone( gl ); ret is the new mesh
Mesh_clone(h, m, gl) ==
    CloneIndexBuffers(ClonedPayloads(h, h.meshes[m].vertexBuffers, 1, <<>>), m,
                      IF gl = Null THEN GlobalGl ELSE gl)

\* the buffers of a map as payloads of addBuffers
SharedPayloads(map) ==
    [k \in 1..Len(map) |-> [name |-> map[k].name, form |-> "buffer", ref |-> map[k].buf]]

\* Mesh.prototype.cloneShared( gl ); ret is the new mesh
cloneShared(h, m, gl) ==
    Mesh(h, SharedPayloads(h.meshes[m].vertexBuffers), SharedPayloads(h.meshes[m].indexBuffers),
         NoOptions, IF gl = Null THEN GlobalGl ELSE gl)

(***************************************************************************)
(* Vectors: gl-matrix's vec3 on sequences of numbers.  Reading a typed     *)
(* array past its end gives undefined, which arithmetic turns into NaN.    *)
(***************************************************************************)
\* nums[i] for a 0-based i, NaN outside the array
At(nums, i) == IF i >= 0 /\ i < Len(nums) THEN nums[i + 1] ELSE NaN

\* array.subarray(i, i + n) read as n numbers
Sub(nums, i, n) == [k \in 1..n |-> At(nums, i + k - 1)]

vec3_sub(a, b) == <<NSub(a[1], b[1]), NSub(a[2], b[2]), NSub(a[3], b[3])>>

vec3_add(a, b) == <<NAdd(a[1], b[1]), NAdd(a[2], b[2]), NAdd(a[3], b[3])>>

vec3_scale(a, k) == <<NMul(a[1], k), NMul(a[2], k), NMul(a[3], k)>>

vec3_dot(a, b) == NAdd(NAdd(NMul(a[1], b[1]), NMul(a[2], b[2])), NMul(a[3], b[3]))

vec3_cross(a, b) ==
    <<NSub(NMul(a[2], b[3]), NMul(a[3], b[2])),
      NSub(NMul(a[3], b[1]), NMul(a[1], b[3])),
      NSub(NMul(a[1], b[2]), NMul(a[2], b[1]))>>

vec3_min(a, b) == <<Math_min(a[1], b[1]), Math_min(a[2], b[2]), Math_min(a[3], b[3])>>

vec3_max(a, b) == <<Math_max(a[1], b[1]), Math_max(a[2], b[2]), Math_max(a[3], b[3])>>

AllFinite(a) == \A k \in 1..Len(a) : IsFinite(a[k])

\* vec3.normalize(out, a) with out === a: a / |a| when |a|^2 > 0, else a as it is;
\* a vector with an infinite component has length Infinity
vec3_normalize(a) ==
    IF \E k \in 1..3 : a[k] = NaN THEN a
    ELSE IF ~AllFinite(a) THEN [k \in 1..3 |-> IF IsFinite(a[k]) THEN 0 ELSE NaN]
    ELSE LET len2 == a[1] * a[1] + a[2] * a[2] + a[3] * a[3]
             len == ISqrt(len2)
         IN  IF len2 = 0 THEN a
             ELSE [k \in 1..3 |-> RoundDiv(a[k] * FScale, len)]

\* 0.01 as a squared distance, in units of 1 / FScale^2
WeldThreshold == (FScale * FScale) \div 100

\* a squared length below 0.01; a distance that is NaN is not below it
IsShort(d) ==
    /\ AllFinite(d)
    /\ d[1] * d[1] + d[2] * d[2] + d[3] * d[3] < WeldThreshold

\* a test that takes every two vertices for the same
IsNear_always(a, b) == TRUE

\* vec3.sqrDist(a, b) < 0.01
IsNear(a, b) == IsShort(vec3_sub(a, b))

(***************************************************************************)
(* GL.Mesh: the geometry processors.                                       *)
(***************************************************************************)
\* typed.subarray(begin, end) as numbers, clipped to the array
Clip(len, x) == IF x < 0 THEN (IF len + x < 0 THEN 0 ELSE len + x)
                ELSE IF x > len THEN len ELSE x

subarray(nums, begin, end) == SubSeq(nums, Clip(Len(nums), begin) + 1, Clip(Len(nums), end))

\* the n numbers of slot `index` of an array of n-tuples, as subarray gives
\* them: index is a number read from an index array, NaN when read past its
\* end (undefined), and then the subarray is empty
Slot(nums, index, n) ==
    IF ~IsFinite(index) THEN <<>>
    ELSE subarray(nums, TruncDiv(index, FScale) * n, TruncDiv(index, FScale) * n + n)

\* a vector read from a subarray: the missing components are undefined
Vec(sub, n) == [k \in 1..n |-> At(sub, k - 1)]

\* vec3.add( s, s, v ) for s the subarray of slot `index`: the components the
\* subarray does not have are not written
AddToSlot(nums, index, n, v) ==
    IF ~IsFinite(index) THEN nums
    ELSE LET b == Clip(Len(nums), TruncDiv(index, FScale) * n)
             e == Clip(Len(nums), TruncDiv(index, FScale) * n + n)
         IN  [p \in 1..Len(nums) |->
                 IF p > b /\ p <= e THEN NAdd(nums[p], v[p - b]) ELSE nums[p]]

\* s[k] = v[k] for s the subarray of slot `index`
SetSlot(nums, index, n, v) ==
    IF ~IsFinite(index) THEN nums
    ELSE LET b == Clip(Len(nums), TruncDiv(index, FScale) * n)
             e == Clip(Len(nums), TruncDiv(index, FScale) * n + n)
         IN  [p \in 1..Len(nums) |-> IF p > b /\ p <= e THEN v[p - b] ELSE nums[p]]

\* the numbers of a buffer's data
BufNums(h, b) == Nums(h.arrays[h.bufs[b].data])

\* linearizeArray( array ) for a plain array of rows: a Float32Array of
\* array.length * array[0].length numbers; ret is the new array
linearizeArray(h, rows) ==
    IF rows = <<>> THEN Throw(h, "TypeError")
    ELSE LET components == Len(rows[1])
         IN  AllocArray(h, TypedOf("Float32Array",
                 [k \in 1..(Len(rows) * components) |->
                     At(rows[((k - 1) \div components) + 1], (k - 1) % components)]))

\* (v[0] * 1000)|0
WeldKey(v) == IF ~IsFinite(v[1]) THEN 0 ELSE TruncDiv(v[1] * 1000, FScale)

\* the scan of the candidates, lines 1060-1069: the first j whose vertex
\* new_vertices[ candidates[j] ] is near v, l2 when there is none.  A candidate
\* is never larger than its own position, so the vertex it names exists.
RECURSIVE FirstNear(_, _, _, _, _)
FirstNear(v, candidates, new_vertices, old, j) ==
    IF j >= Len(candidates) THEN Len(candidates)
    ELSE IF /\ candidates[j + 1] < Len(new_vertices)
            /\ IsNear(v, Sub(old, 3 * new_vertices[candidates[j + 1] + 1], 3))
    THEN j
    ELSE FirstNear(v, candidates, new_vertices, old, j + 1)

\* lines 1085-1099: the vertex i is dropped when the scan stopped at j before
\* the end of the candidates, and kept with index j otherwise
WeldInto(st, i, key, has, candidates, j) ==
    IF has /\ j # Len(candidates)
    THEN [st EXCEPT !.indices = Append(@, j)]
    ELSE [new_vertices |-> Append(st.new_vertices, i),
          indexer |-> MapPut(st.indexer, key, Append(candidates, j)),
          indices |-> Append(st.indices, j)]

\* lines 1055-1070: j is where the scan of the candidates stops, 0 without
\* candidates
WeldSearch(st, old, i, v, key, has, candidates) ==
    WeldInto(st, i, key, has, candidates,
             IF has THEN FirstNear(v, candidates, st.new_vertices, old, 0) ELSE 0)

\* line 1056: candidates = indexer[key]
WeldLookup(st, old, i, v, key) ==
    WeldSearch(st, old, i, v, key, MapHas(st.indexer, key),
               IF MapHas(st.indexer, key) THEN MapGet(st.indexer, key) ELSE <<>>)

\* one turn of the loop of computeIndices, lines 1051-1099.  new_vertices holds
\* the ordinal in the old data of each vertex kept, indexer maps a key to its
\* candidates, indices is the index list.
WeldStep(st, old, i) ==
    WeldLookup(st, old, i, Sub(old, 3 * i, 3), WeldKey(Sub(old, 3 * i, 3)))

RECURSIVE WeldLoop(_, _, _)
WeldLoop(st, old, i) ==
    IF 3 * i >= Len(old) THEN st ELSE WeldLoop(WeldStep(st, old, i), old, i + 1)

\* the rows new_normals and new_coords collect for the vertices kept
KeptRows(nums, new_vertices, n) ==
    [k \in 1..Len(new_vertices) |->
        subarray(nums, new_vertices[k] * n, (new_vertices[k] + 1) * n)]

\* a buffer's data, Null when the mesh has no such buffer
DataOf(h, m, name) ==
    LET b == MapGet(h.meshes[m].vertexBuffers, name)
    IN  IF b = Null THEN Null ELSE h.bufs[b].data

\* createVertexBuffer( name, common attribute, spacing, linearizeArray( rows ) )
CreateFromRet(h1, m, name, spacing) ==
    IF h1.exc # "" THEN h1
    ELSE createVertexBuffer(h1, m, name, common_attribute(name), spacing, h1.ret)

CreateLinearized(h, m, name, spacing, rows) ==
    IF h.exc # "" THEN h ELSE CreateFromRet(linearizeArray(h, rows), m, name, spacing)

\* lines 1106-1109: the stream of the vertices kept, when the mesh had one;
\* old_data is the array the stream was read from, Null when it had none
CreateKept(h, old_arrays, old_data, m, name, spacing, new_vertices) ==
    IF old_data = Null THEN h
    ELSE CreateLinearized(h, m, name, spacing,
             KeptRows(Nums(old_arrays[old_data]), new_vertices, spacing))

\* this.createIndexBuffer( "triangles", indices ), line 1111
CreateTriangles(h3, m, indices) ==
    IF h3.exc # "" THEN h3
    ELSE [createIndexBuffer(
              AllocArray(h3, [kind |-> "Array",
                              vals |-> [k \in 1..Len(indices) |-> indices[k] * One]]),
              m, "triangles", Len(h3.arrays) + 1) EXCEPT !.ret = Null]

\* lines 1103-1111 of computeIndices: the buffers built from the result st of
\* the loop; h is the heap the call started from
WeldStore(h, m, st) ==
    CreateTriangles(
        CreateKept(
            CreateKept(
                CreateKept([h EXCEPT !.meshes[m].vertexBuffers = <<>>], h.arrays,
                           DataOf(h, m, "vertices"), m, "vertices", 3, st.new_vertices),
                h.arrays, DataOf(h, m, "normals"), m, "normals", 3, st.new_vertices),
            h.arrays, DataOf(h, m, "coords"), m, "coords", 2, st.new_vertices),
        m, st.indices)

\* Mesh.prototype.computeIndices()
computeIndices(h, m) ==
    IF DataOf(h, m, "vertices") = Null THEN Throw(h, "TypeError")
    ELSE WeldStore(h, m,
             WeldLoop([new_vertices |-> <<>>, indexer |-> <<>>, indices |-> <<>>],
                      Nums(h.arrays[DataOf(h, m, "vertices")]), 0))

\* the lengths of the arrays explodeIndices allocates and the place of the
\* first write that does not fit, lines 1129-1146
ExplodeFits(h, m, indices) ==
    \A i \in 1..Len(indices) : \A j \in 1..Len(h.meshes[m].vertexBuffers) :
        LET e == h.meshes[m].vertexBuffers[j]
            spacing == IF h.bufs[e.buf].spacing # 0 THEN h.bufs[e.buf].spacing
                       ELSE common_spacing(e.name)
        IN  (i - 1) * spacing + Len(Slot(BufNums(h, e.buf), indices[i], spacing))
                <= common_spacing(e.name) * Len(indices)

\* a loop that copies row i to row i and does not follow the indices
Exploded_unindexed(h, b, name, indices) ==
    LET spacing == IF h.bufs[b].spacing # 0 THEN h.bufs[b].spacing ELSE common_spacing(name)
        data == BufNums(h, b)
    IN  TypedOf(common_type(name),
            [p \in 1..(common_spacing(name) * Len(indices)) |->
                LET i == (p - 1) \div spacing
                    sub == IF i < Len(indices) THEN Slot(data, i, spacing)
                           ELSE <<>>
                IN  IF (p - 1) % spacing < Len(sub) THEN sub[((p - 1) % spacing) + 1] ELSE 0])

\* new_buffers[name] once the loop of lines 1135-1146 is over
Exploded(h, b, name, indices) ==
    LET spacing == IF h.bufs[b].spacing # 0 THEN h.bufs[b].spacing ELSE common_spacing(name)
        data == BufNums(h, b)
    IN  TypedOf(common_type(name),
            [p \in 1..(common_spacing(name) * Len(indices)) |->
                LET i == (p - 1) \div spacing
                    sub == IF i < Len(indices) THEN Slot(data, indices[i + 1], spacing)
                           ELSE <<>>
                IN  IF (p - 1) % spacing < Len(sub) THEN sub[((p - 1) % spacing) + 1] ELSE 0])

\* the loop of lines 1194-1198 from the k-th buffer on; old is the heap the
\* loop started from
RECURSIVE ExplodeCreate(_, _, _, _, _)
ExplodeCreate(h, old, m, indices, k) ==
    IF k > Len(old.meshes[m].vertexBuffers) \/ h.exc # "" THEN h
    ELSE LET e == old.meshes[m].vertexBuffers[k]
             b == MapGet(h.meshes[m].vertexBuffers, e.name)
             h1 == AllocArray(h, Exploded(old, e.buf, e.name, indices))
         IN  ExplodeCreate(
                 createVertexBuffer(h1, m, e.name, h.bufs[b].attribute, h.bufs[b].spacing, h1.ret),
                 old, m, indices, k + 1)

\* Mesh.prototype.explodeIndices( buffer_name )
explodeIndices(h, m, buffer_name) ==
    LET indices_buffer == MapGet(h.meshes[m].indexBuffers, buffer_name)
        indices == BufNums(h, indices_buffer)
        vbs == h.meshes[m].vertexBuffers
    IN  IF indices_buffer = Null THEN Return(h, Null)
        ELSE IF h.bufs[indices_buffer].data = Null THEN Throw(h, "TypeError")
        ELSE IF \E j \in 1..Len(vbs) : vbs[j].name \notin CommonNames THEN Throw(h, "TypeError")
        ELSE IF Len(indices) > 0 /\ \E j \in 1..Len(vbs) : h.bufs[vbs[j].buf].data = Null
        THEN Throw(h, "TypeError")
        ELSE IF ~ExplodeFits(h, m, indices) THEN Throw(h, "RangeError")
        ELSE LET h1 == ExplodeCreate(h, h, m, indices, 1)
             IN  IF h1.exc # "" THEN h1
                 ELSE [h1 EXCEPT !.meshes[m].indexBuffers = MapDel(@, buffer_name),
                                 !.ret = Null]

\* the data of the "triangles" index buffer as numbers; <<>> with has FALSE
\* when the mesh has no such buffer or its data is null
TrianglesOf(h, m) ==
    LET b == MapGet(h.meshes[m].indexBuffers, "triangles")
    IN  IF b = Null \/ h.bufs[b].data = Null THEN [has |-> FALSE, nums |-> <<>>]
        ELSE [has |-> TRUE, nums |-> BufNums(h, b)]

\* the face normal left out of the sum
FaceNormal_zero(v1, v2, v3) == Zero3

\* the normal of the plane of a triangle, lines 1259-1262
FaceNormal(v1, v2, v3) == vec3_normalize(vec3_cross(vec3_sub(v2, v1), vec3_sub(v3, v1)))

\* the three slots of the triangle that starts at position a, lines 1234-1257:
\* vertex numbers read from the indices, or a, a+1, a+2
Corners(triangles, a) ==
    IF triangles.has
    THEN <<At(triangles.nums, a), At(triangles.nums, a + 1), At(triangles.nums, a + 2)>>
    ELSE <<a * One, (a + 1) * One, (a + 2) * One>>

\* lines 1265-1267: the face normal added to the three slots c
AddFace(normals, c, temp) ==
    AddToSlot(AddToSlot(AddToSlot(normals, c[1], 3, temp), c[2], 3, temp), c[3], 3, temp)

\* one turn of the loop of lines 1232-1268, for the triangle of the slots c
NormalsStep(normals, vertices, c) ==
    AddFace(normals, c,
            FaceNormal(Vec(Slot(vertices, c[1], 3), 3), Vec(Slot(vertices, c[2], 3), 3),
                       Vec(Slot(vertices, c[3], 3), 3)))

\* the loop of lines 1232-1268 from position a on
RECURSIVE NormalsLoop(_, _, _, _, _)
NormalsLoop(normals, vertices, triangles, a, l) ==
    IF a >= l THEN normals
    ELSE NormalsLoop(NormalsStep(normals, vertices, Corners(triangles, a)),
                     vertices, triangles, a + 3, l)

\* vec3.normalize on every slot, lines 1272-1276
NormalizeAll(normals) ==
    [p \in 1..Len(normals) |->
        LET a == ((p - 1) \div 3) * 3
        IN  IF a + 3 <= Len(normals)
            THEN vec3_normalize(Vec(subarray(normals, a, a + 3), 3))[p - a]
            ELSE normals[p]]

\* buffer.data = data; buffer.upload() for the buffer b and the array h1.ret
\* just made, or createVertexBuffer when the mesh has no buffer of this name
StoreRet(h1, m, name, spacing, b) ==
    IF b # Null
    THEN [upload([h1 EXCEPT !.bufs[b].data = h1.ret], b) EXCEPT !.ret = b]
    ELSE createVertexBuffer(h1, m, name, common_attribute(name), spacing, h1.ret)

StoreStream(h, m, name, spacing, a) ==
    StoreRet(AllocArray(h, a), m, name, spacing, MapGet(h.meshes[m].vertexBuffers, name))

\* lines 1219-1276: the normals of the vertices for the indices triangles,
\* normalized when the mesh has indices
NormalsOf(vertices, triangles) ==
    IF triangles.has
    THEN NormalizeAll(NormalsLoop([p \in 1..Len(vertices) |-> 0], vertices, triangles,
                                  0, Len(triangles.nums)))
    ELSE NormalsLoop([p \in 1..Len(vertices) |-> 0], vertices, triangles, 0, Len(vertices))

\* Mesh.prototype.computeNormals()
computeNormals(h, m) ==
    LET vertices_buffer == MapGet(h.meshes[m].vertexBuffers, "vertices")
    IN  IF vertices_buffer = Null
        THEN Return(Log(h, "Cannot compute normals of a mesh without vertices"), Null)
        ELSE IF h.bufs[vertices_buffer].data = Null THEN Throw(h, "TypeError")
        ELSE StoreStream(h, m, "normals", 3,
                 TypedOf("Float32Array", NormalsOf(BufNums(h, vertices_buffer),
                                                   TrianglesOf(h, m))))

\* Math.abs(den) < 0.000000001
IsTiny(den) == den = 0

\* lines 1370-1376: sdir and tdir added to the slots of the three corners;
\* tan is [tan1, tan2]
TangentAdd(tan, i1, i2, i3, sdir, tdir) ==
    [tan1 |-> AddToSlot(AddToSlot(AddToSlot(tan.tan1, i1, 3, sdir), i2, 3, sdir), i3, 3, sdir),
     tan2 |-> AddToSlot(AddToSlot(AddToSlot(tan.tan2, i1, 3, tdir), i2, 3, tdir), i3, 3, tdir)]

\* lines 1367-1368
TangentDirs(tan, i1, i2, i3, d1, d2, s1, s2, t1, t2, r) ==
    TangentAdd(tan, i1, i2, i3,
               [k \in 1..3 |-> NMul(NSub(NMul(t2, d1[k]), NMul(t1, d2[k])), r)],
               [k \in 1..3 |-> NMul(NSub(NMul(s1, d2[k]), NMul(s2, d1[k])), r)])

\* lines 1360-1365: r from den
TangentRatio(tan, i1, i2, i3, d1, d2, s1, s2, t1, t2, den) ==
    TangentDirs(tan, i1, i2, i3, d1, d2, s1, s2, t1, t2,
                IF IsTiny(den) THEN 0 ELSE NDiv(One, den))

\* line 1361
TangentDen(tan, i1, i2, i3, d1, d2, s1, s2, t1, t2) ==
    TangentRatio(tan, i1, i2, i3, d1, d2, s1, s2, t1, t2, NSub(NMul(s1, t2), NMul(s2, t1)))

\* lines 1348-1358: the edges of the triangle and of its texture coordinates
TangentEdges(tan, i1, i2, i3, v1, v2, v3, w1, w2, w3) ==
    TangentDen(tan, i1, i2, i3, vec3_sub(v2, v1), vec3_sub(v3, v1),
               NSub(w2[1], w1[1]), NSub(w3[1], w1[1]),
               NSub(w2[2], w1[2]), NSub(w3[2], w1[2]))

\* lines 1340-1346
TangentCorners(tan, vertices, uvs, i1, i2, i3) ==
    TangentEdges(tan, i1, i2, i3,
                 Vec(Slot(vertices, i1, 3), 3), Vec(Slot(vertices, i2, 3), 3),
                 Vec(Slot(vertices, i3, 3), 3),
                 Vec(Slot(uvs, i1, 2), 2), Vec(Slot(uvs, i2, 2), 2), Vec(Slot(uvs, i3, 2), 2))

\* one turn of the loop of computeTangents, lines 1336-1376
TangentStep(tan, vertices, uvs, triangles, a) ==
    TangentCorners(tan, vertices, uvs,
                   At(triangles, a), At(triangles, a + 1), At(triangles, a + 2))

RECURSIVE TangentLoop(_, _, _, _, _)
TangentLoop(tan, vertices, uvs, triangles, a) ==
    IF a >= Len(triangles) THEN tan
    ELSE TangentLoop(TangentStep(tan, vertices, uvs, triangles, a), vertices, uvs, triangles, a + 3)

\* lines 1385-1390 for the normal n, the tangent t and the bitangent t2
TangentVec(n, t, t2) ==
    Append(vec3_normalize(vec3_sub(t, vec3_scale(n, vec3_dot(n, t)))),
           IF NLess(vec3_dot(vec3_cross(n, t), t2), 0) THEN -One ELSE One)

\* the four numbers of the tangent of the vertex at position a, lines 1381-1390
TangentOf(tan, normals, a) ==
    TangentVec(Vec(subarray(normals, a, a + 3), 3), Vec(subarray(tan.tan1, a, a + 3), 3),
               Vec(subarray(tan.tan2, a, a + 3), 3))

\* lines 1379-1391: the tangents of num_vertices vertices
TangentsOf(tan, normals, num_vertices) ==
    [p \in 1..(num_vertices * 4) |->
        TangentOf(tan, normals, ((p - 1) \div 4) * 3)[((p - 1) % 4) + 1]]

\* lines 1320-1393
TangentsFrom(h, m, vertices, normals, uvs, triangles) ==
    CreateFromRet(
        AllocArray(h, TypedOf("Float32Array",
            TangentsOf(TangentLoop([tan1 |-> [p \in 1..((Len(vertices) \div 3) * 3) |-> 0],
                                    tan2 |-> [p \in 1..((Len(vertices) \div 3) * 3) |-> 0]],
                                   vertices, uvs, triangles, 0),
                       normals, Len(vertices) \div 3))),
        m, "tangents", 4)

\* Mesh.prototype.computeTangents()
computeTangents(h, m) ==
    IF ~MapHas(h.meshes[m].vertexBuffers, "vertices")
    THEN Return(Log(h, "Cannot compute tangents of a mesh without vertices"), Null)
    ELSE IF ~MapHas(h.meshes[m].vertexBuffers, "normals")
    THEN Return(Log(h, "Cannot compute tangents of a mesh without normals"), Null)
    ELSE IF ~MapHas(h.meshes[m].vertexBuffers, "coords")
    THEN Return(Log(h, "Cannot compute tangents of a mesh without uvs"), Null)
    ELSE IF ~MapHas(h.meshes[m].indexBuffers, "triangles")
    THEN Return(Log(h, "Cannot compute tangents of a mesh without indices"), Null)
    ELSE IF \/ DataOf(h, m, "vertices") = Null \/ DataOf(h, m, "normals") = Null
            \/ DataOf(h, m, "coords") = Null
    THEN Return(h, Null)
    ELSE IF h.bufs[MapGet(h.meshes[m].indexBuffers, "triangles")].data = Null
    THEN Throw(h, "TypeError")
    ELSE [TangentsFrom(h, m, Nums(h.arrays[DataOf(h, m, "vertices")]),
                       Nums(h.arrays[DataOf(h, m, "normals")]),
                       Nums(h.arrays[DataOf(h, m, "coords")]),
                       BufNums(h, MapGet(h.meshes[m].indexBuffers, "triangles")))
             EXCEPT !.ret = Null]

\* Mesh.prototype.getBoundingBox(): this._bounding, which the constructor
\* always sets, so lines 1599-1600 are never reached
getBoundingBox(h, m) == h.meshes[m].bounding

\* lines 1467-1496 for the plane normal made positive
AxesOf(plane_normal) ==
    IF NGreater(plane_normal[1], plane_normal[2]) /\ NGreater(plane_normal[1], plane_normal[3])
    THEN <<3, 2>>
    ELSE IF NGreater(plane_normal[2], plane_normal[3]) THEN <<1, 3>>
    ELSE <<1, 2>>

\* lines 1463-1465
AbsVec(c) == <<NAbs(c[1]), NAbs(c[2]), NAbs(c[3])>>

\* the two axes a triangle is projected on, lines 1458-1496, 1-based:
\* (z, y) for a normal mostly along x, (x, z) along y, else (x, y)
PlaneAxes(v1, v2, v3) == AxesOf(AbsVec(vec3_cross(vec3_sub(v1, v2), vec3_sub(v1, v3))))

\* (v[x] - bboxcenter[x]) / bboxhs[x] for the two axes
Projected(v, axes, bbox) ==
    <<NDiv(NSub(v[axes[1]], bbox.center[axes[1]]), NMul(bbox.halfsize[axes[1]], 2 * One)),
      NDiv(NSub(v[axes[2]], bbox.center[axes[2]]), NMul(bbox.halfsize[axes[2]], 2 * One))>>

\* lines 1467-1496: the texture coordinates of the vertices a, a+1, a+2
CoordsSet(uvs, a, v1, v2, v3, axes, bbox) ==
    SetSlot(SetSlot(SetSlot(uvs, a * One, 2, Projected(v1, axes, bbox)),
                    (a + 1) * One, 2, Projected(v2, axes, bbox)),
            (a + 2) * One, 2, Projected(v3, axes, bbox))

\* one turn of the loop of lines 1431-1497 without indices
CoordsStep(uvs, a, v1, v2, v3, bbox) ==
    CoordsSet(uvs, a, v1, v2, v3, PlaneAxes(v1, v2, v3), bbox)

\* the loop of lines 1431-1497 without indices, from position a on
RECURSIVE CoordsLoop(_, _, _, _, _)
CoordsLoop(uvs, vertices, bbox, a, num3) ==
    IF 3 * a >= num3 THEN uvs
    ELSE CoordsLoop(CoordsStep(uvs, a, Vec(Slot(vertices, a * One, 3), 3),
                               Vec(Slot(vertices, (a + 1) * One, 3), 3),
                               Vec(Slot(vertices, (a + 2) * One, 3), 3), bbox),
                    vertices, bbox, a + 3, num3)

\* Mesh.prototype.computeTextureCoordinates().  vertices_buffer is read before
\* explodeIndices replaces the buffers of the mesh; after explodeIndices the
\* mesh has no "triangles", so the loop runs without indices.
ProjectedCoords(h1, m, vertices_buffer) ==
    IF h1.exc # "" THEN h1
    ELSE IF h1.bufs[vertices_buffer].data = Null THEN Throw(h1, "TypeError")
    ELSE [StoreStream(h1, m, "coords", 2,
              TypedOf("Float32Array",
                  CoordsLoop([p \in 1..((Len(BufNums(h1, vertices_buffer)) \div 3) * 2) |-> 0],
                             BufNums(h1, vertices_buffer), getBoundingBox(h1, m), 0,
                             Len(BufNums(h1, vertices_buffer)))))
             EXCEPT !.ret = Null]

computeTextureCoordinates(h, m) ==
    IF MapGet(h.meshes[m].vertexBuffers, "vertices") = Null
    THEN Return(Log(h, "Cannot compute uvs of a mesh without vertices"), Null)
    ELSE ProjectedCoords(explodeIndices(h, m, "triangles"), m,
                         MapGet(h.meshes[m].vertexBuffers, "vertices"))

\* the edges the loop of lines 964-970 hands to the indexer, in order: for the
\* index at position p (from 0) of the triangle t = data.subarray(i, i + 3), the
\* pair [min, max] of it and of the next index of t, the first after the last
WireEdge(data, p, i, tlen) ==
    <<Math_min(data[p + 1], data[i + ((p - i + 1) % tlen) + 1]),
      Math_max(data[p + 1], data[i + ((p - i + 1) % tlen) + 1])>>

WireEdges(data) ==
    [q \in 1..Len(data) |->
        WireEdge(data, q - 1, ((q - 1) \div 3) * 3,
                 IF Len(data) - ((q - 1) \div 3) * 3 < 3
                 THEN Len(data) - ((q - 1) \div 3) * 3 ELSE 3)]

\* GL.Indexer, lines 10-24: indexer.unique after the edges from the k-th on
\* were added to an indexer whose unique list was acc
RECURSIVE Indexer_add(_, _, _)
Indexer_add(edges, k, acc) ==
    IF k > Len(edges) THEN acc
    ELSE Indexer_add(edges, k + 1,
             IF \E q \in 1..Len(acc) : acc[q] = edges[k] THEN acc ELSE Append(acc, edges[k]))

\* the pairs of a list of pairs, one after the other (lines 975-976)
Linearized(unique) ==
    [p \in 1..(2 * Len(unique)) |-> unique[((p - 1) \div 2) + 1][((p - 1) % 2) + 1]]

\* the corner of a triangle an edge list of lines 950-955 names at position p
WireCorner(p) ==
    ((p \div 6) * 3 + (IF p % 6 = 0 \/ p % 6 = 5 THEN 0 ELSE IF p % 6 < 3 THEN 1 ELSE 2)) * One

\* lines 946-956: the buffer of a mesh without indices whose "vertices" data has
\* length numbers; num_triangles * 6 is 2 * length / 3, cut to an integer
WireUnindexed(length) == [p \in 1..((2 * length) \div 3) |-> WireCorner(p - 1)]

\* the class of the buffer, lines 947 and 974
WireKind(length) == IF length > 3 * IndexLimit THEN "Uint32Array" ELSE "Uint16Array"

\* line 980: this.createIndexBuffer('wireframe', buffer); return this
CreateWireframe(h1, m) ==
    [createIndexBuffer(h1, m, "wireframe", h1.ret) EXCEPT !.ret = IF @ = Null THEN @ ELSE m]

\* lines 944-977, for the length of the "vertices" data
WireBuffer(h, m, index_buffer, length) ==
    IF index_buffer = Null
    THEN CreateWireframe(AllocArray(h, TypedOf(WireKind(length), WireUnindexed(length))), m)
    ELSE IF h.bufs[index_buffer].data = Null THEN Throw(h, "TypeError")
    ELSE IF /\ h.arrays[h.bufs[index_buffer].data].kind = "Array"
            /\ Len(h.arrays[h.bufs[index_buffer].data].vals) > 0
    THEN Throw(h, "TypeError")
    ELSE CreateWireframe(
             AllocArray(h, TypedOf(WireKind(length),
                 Linearized(Indexer_add(WireEdges(BufNums(h, index_buffer)), 1, <<>>)))),
             m)

\* Mesh.prototype.computeWireframe(); ret is the mesh
computeWireframe(h, m) ==
    IF MapGet(h.meshes[m].vertexBuffers, "vertices") = Null THEN Throw(h, "TypeError")
    ELSE IF h.bufs[MapGet(h.meshes[m].vertexBuffers, "vertices")].data = Null
    THEN Throw(h, "TypeError")
    ELSE WireBuffer(h, m, MapGet(h.meshes[m].indexBuffers, "triangles"), VerticesLength(h, m))

\* data[i] *= -1 on every element, lines 996-997
Negated(a) == TypedOf(a.kind, [i \in 1..Len(a.vals) |-> NNeg(ElemToNum(a.kind, a.vals[i]))])

\* the first two indices of every triangle exchanged, lines 1007-1013; the
\* partner of a last lone index is undefined
Swapped(a) ==
    LET nums == Nums(a)
    IN  TypedOf(a.kind,
            [i \in 1..Len(nums) |->
                IF (i - 1) % 3 = 0 THEN At(nums, i)
                ELSE IF (i - 1) % 3 = 1 THEN nums[i - 1]
                ELSE nums[i]])

\* lines 1002-1003: computeIndices() for a mesh without "triangles"
EnsureIndices(h1, m) ==
    IF h1.exc # "" \/ MapHas(h1.meshes[m].indexBuffers, "triangles") THEN h1
    ELSE computeIndices(h1, m)

\* lines 1004-1014: the indices exchanged and uploaded
FlipTriangles(h2, m) ==
    LET triangles_buffer == MapGet(h2.meshes[m].indexBuffers, "triangles")
        tdata == h2.bufs[triangles_buffer].data
    IN  IF h2.exc # "" THEN h2
        ELSE IF tdata = Null THEN Throw(h2, "TypeError")
        ELSE [upload([h2 EXCEPT !.arrays[tdata] = Swapped(@)], triangles_buffer)
                 EXCEPT !.ret = Null]

\* Mesh.prototype.flipNormals()
flipNormals(h, m) ==
    LET normals_buffer == MapGet(h.meshes[m].vertexBuffers, "normals")
        data == h.bufs[normals_buffer].data
    IN  IF normals_buffer = Null THEN Return(h, Null)
        ELSE IF data = Null THEN Throw(h, "TypeError")
        ELSE FlipTriangles(
                 EnsureIndices(upload([h EXCEPT !.arrays[data] = Negated(@)], normals_buffer), m),
                 m)

(***************************************************************************)
(* The bounding box.                                                       *)
(***************************************************************************)
\* x * 0.5
NHalf(x) == IF IsFinite(x) THEN RoundDiv(x, 2) ELSE x

\* vec3.length
vec3_length(a) ==
    IF \E k \in 1..3 : a[k] = NaN THEN NaN
    ELSE IF ~AllFinite(a) THEN PInf
    ELSE ISqrt(a[1] * a[1] + a[2] * a[2] + a[3] * a[3])

\* BBox.setCenterHalfsize( bb, center, halfsize )
BBox_setCenterHalfsize(bb, center, halfsize) ==
    [center |-> center, halfsize |-> halfsize,
     min |-> vec3_sub(center, halfsize), max |-> vec3_add(center, halfsize),
     radius |-> vec3_length(halfsize)]

NoMask == [has |-> FALSE, vals |-> <<>>]

\* the loop of lines 1548-1553: the first marked position, 0 when none is
FirstMarked(mask) ==
    IF \E i \in 1..Len(mask) : mask[i] # 0
    THEN (CHOOSE i \in 1..Len(mask) : mask[i] # 0 /\ \A k \in 1..(i - 1) : mask[k] = 0) - 1
    ELSE 0

\* the vertices the loop of lines 1565-1572 reduces, as positions i / 3
Reduced(vertices, mask, start) ==
    {i \in start..((Len(vertices) + 2) \div 3 - 1) :
        ~mask.has \/ (i < Len(mask.vals) /\ mask.vals[i + 1] # 0)}

\* vec3.min or vec3.max of the seed with the vertices numbered in S
RECURSIVE ReduceMin(_, _, _)
ReduceMin(vertices, S, min) ==
    IF S = {} THEN min
    ELSE LET i == CHOOSE x \in S : \A y \in S : x <= y
         IN  ReduceMin(vertices, S \ {i}, vec3_min(Vec(subarray(vertices, 3 * i, 3 * i + 3), 3), min))

RECURSIVE ReduceMax(_, _, _)
ReduceMax(vertices, S, max) ==
    IF S = {} THEN max
    ELSE LET i == CHOOSE x \in S : \A y \in S : x <= y
         IN  ReduceMax(vertices, S \ {i}, vec3_max(Vec(subarray(vertices, 3 * i, 3 * i + 3), 3), max))

\* the test of line 1554 for a mask without a marked vertex
onlyZeros(mask, start) == start = Len(mask)

\* Mesh.computeBoundingBox( vertices, bb, mask ): vertices is [has, nums], has
\* FALSE for null; the result is [returned, warn, bb], returned FALSE for a
\* call that returns nothing and leaves bb as it was, warn the warning it
\* gives to the console, "" for none
\* lines 1582-1586: the box of the corners min and max
BoxOfCorners(bb, min, max) ==
    [returned |-> TRUE, warn |-> "",
     bb |-> BBox_setCenterHalfsize(bb,
                <<NHalf(NAdd(min[1], max[1])), NHalf(NAdd(min[2], max[2])),
                  NHalf(NAdd(min[3], max[3]))>>,
                <<NSub(max[1], NHalf(NAdd(min[1], max[1]))),
                  NSub(max[2], NHalf(NAdd(min[2], max[2]))),
                  NSub(max[3], NHalf(NAdd(min[3], max[3])))>>)]

\* lines 1574-1580: corners with a NaN are replaced by zeros, with a warning
BoxOfExtremes(bb, min, max) ==
    IF \E k \in 1..3 : isNaN(min[k]) \/ isNaN(max[k])
    THEN [BoxOfCorners(bb, Zero3, Zero3) EXCEPT !.warn = "Warning: GL.Mesh has NaN values in vertices"]
    ELSE BoxOfCorners(bb, min, max)

\* lines 1561-1572: the extremes of the vertices reduced, seeded with the
\* vertex at start
BoxFrom(nums, bb, mask, start) ==
    BoxOfExtremes(bb,
        ReduceMin(nums, Reduced(nums, mask, start),
                  Vec(subarray(nums, start * 3, start * 3 + 3), 3)),
        ReduceMax(nums, Reduced(nums, mask, start),
                  Vec(subarray(nums, start * 3, start * 3 + 3), 3)))

computeBoundingBox(vertices, bb, mask) ==
    IF ~vertices.has THEN [returned |-> FALSE, warn |-> "", bb |-> bb]
    ELSE IF mask.has /\ onlyZeros(mask.vals, FirstMarked(mask.vals))
    THEN [returned |-> FALSE, warn |-> "mask contains only zeros, no vertices marked", bb |-> bb]
    ELSE BoxFrom(vertices.nums, bb, mask, IF mask.has THEN FirstMarked(mask.vals) ELSE 0)

\* the mask of a group of an indexed mesh, lines 1645-1652
GroupMask(vertices, indices, group) ==
    LET marked == {TruncDiv(At(indices, group.start + j), FScale) :
                      j \in {x \in 0..(((group.length + 2) \div 3) * 3 - 1) :
                                 IsFinite(At(indices, group.start + x))}}
    IN  [has |-> TRUE, vals |-> [i \in 1..(Len(vertices) \div 3) |->
                                    IF (i - 1) \in marked THEN 1 ELSE 0]]

\* the call of computeBoundingBox for one group, lines 1640-1659
GroupBox(vertices, indices, group) ==
    IF indices.has
    THEN computeBoundingBox([has |-> TRUE, nums |-> vertices], group.bounding,
                            GroupMask(vertices, indices.nums, group))
    ELSE computeBoundingBox(
             [has |-> TRUE,
              nums |-> subarray(vertices, group.start * 3, (group.start + group.length) * 3)],
             group.bounding, NoMask)

\* the bounding box it leaves in the group
GroupBounding(vertices, indices, group) == GroupBox(vertices, indices, group).bb

\* the console after the warnings of the calls for the groups from the i-th on
RECURSIVE GroupWarnings(_, _, _, _, _)
GroupWarnings(console_, vertices, indices, groups, i) ==
    IF i > Len(groups) THEN console_
    ELSE GroupWarnings(
             IF GroupBox(vertices, indices, groups[i]).warn = "" THEN console_
             ELSE Append(console_, GroupBox(vertices, indices, groups[i]).warn),
             vertices, indices, groups, i + 1)

\* Mesh.prototype.computeGroupsBoundingBoxes()
computeGroupsBoundingBoxes(h, m) ==
    LET indices_buffer == MapGet(h.meshes[m].indexBuffers, "triangles")
        indices == IF indices_buffer = Null \/ h.bufs[indices_buffer].data = Null
                   THEN [has |-> FALSE, nums |-> <<>>]
                   ELSE [has |-> TRUE, nums |-> BufNums(h, indices_buffer)]
        vertices_buffer == MapGet(h.meshes[m].vertexBuffers, "vertices")
        vertices == BufNums(h, vertices_buffer)
    IN  IF vertices_buffer = Null THEN Return(h, Null)
        ELSE IF h.bufs[vertices_buffer].data = Null THEN Throw(h, "TypeError")
        ELSE IF Len(vertices) = 0 THEN Return(h, Null)
        ELSE LET groups == h.meshes[m].groups
             IN  [h EXCEPT !.meshes[m].groups =
                     [i \in 1..Len(groups) |->
                         [groups[i] EXCEPT !.bounding = GroupBounding(vertices, indices, groups[i])]],
                           !.console = GroupWarnings(@, vertices, indices, groups, 1)]

\* lines 1612-1613: the boxes of the groups, when the mesh has groups
GroupsBounded(h1, m) ==
    IF Len(h1.meshes[m].groups) > 0 THEN computeGroupsBoundingBoxes(h1, m) ELSE h1

\* Mesh.prototype.updateBoundingBox()
updateBoundingBox(h, m) ==
    LET vertices == MapGet(h.meshes[m].vertexBuffers, "vertices")
        data == h.bufs[vertices].data
        r == computeBoundingBox(
                 IF data = Null THEN [has |-> FALSE, nums |-> <<>>]
                 ELSE [has |-> TRUE, nums |-> Nums(h.arrays[data])],
                 h.meshes[m].bounding, NoMask)
    IN  IF vertices = Null THEN Return(h, Null)
        ELSE GroupsBounded(
                 [(IF r.warn = "" THEN h ELSE Log(h, r.warn))
                     EXCEPT !.meshes[m].bounding = r.bb],
                 m)

(***************************************************************************)
(* Mesh.prototype.slice and Mesh.mergeMeshes.                              *)
(***************************************************************************)
\* reindex[index] for the Int32Array reindex, undefined outside it
ReindexAt(reindex, index) ==
    IF IsFinite(index) /\ TruncDiv(index, FScale) >= 0 /\ TruncDiv(index, FScale) < Len(reindex)
    THEN reindex[TruncDiv(index, FScale) + 1] ELSE Undefined

\* one turn of the loop of slice, lines 1780-1802: picked lists the old
\* vertices taken, in the order of their new numbers
SliceStep(st, indices, j) ==
    LET index == At(indices, j)
        r == ReindexAt(st.reindex, index)
        new_index == Len(st.picked)
    IN  IF r # -1
        THEN [st EXCEPT !.new_triangles = Append(@, IF r = Undefined THEN r ELSE r * One)]
        ELSE [reindex |-> [st.reindex EXCEPT ![TruncDiv(index, FScale) + 1] = new_index],
              new_triangles |-> Append(st.new_triangles, new_index * One),
              picked |-> Append(st.picked, TruncDiv(index, FScale))]

RECURSIVE SliceLoop(_, _, _, _)
SliceLoop(st, indices, j, end) ==
    IF j >= end THEN st ELSE SliceLoop(SliceStep(st, indices, j), indices, j + 1, end)

\* data[k + index*spacing] for the vertices picked: the plain array
\* new_vertex_buffers[i]
Picked(nums, spacing, picked) ==
    [p \in 1..(Len(picked) * spacing) |->
        LET at == picked[((p - 1) \div spacing) + 1] * spacing + ((p - 1) % spacing)
        IN  IF at < Len(nums) THEN nums[at + 1] ELSE Undefined]

\* the payloads new_vertex_buffers of slice from the k-th buffer of the mesh
\* on; ret is the list of payloads
RECURSIVE SlicePayloads(_, _, _, _, _)
SlicePayloads(h, m, picked, k, pays) ==
    IF k > Len(h.meshes[m].vertexBuffers) THEN Return(h, pays)
    ELSE LET e == h.meshes[m].vertexBuffers[k]
             h1 == AllocArray(h, [kind |-> "Array",
                                  vals |-> Picked(BufNums(h, e.buf), h.bufs[e.buf].spacing, picked)])
         IN  SlicePayloads(h1, m, picked, k + 1,
                 Append(pays, [name |-> e.name, form |-> "array", ref |-> h1.ret]))

\* mesh.updateBoundingBox() on the mesh just constructed, which is returned
WithBounding(h3) ==
    IF h3.exc # "" THEN h3 ELSE [updateBoundingBox(h3, h3.ret) EXCEPT !.ret = h3.ret]

\* new GL.Mesh( new_vertex_buffers, { triangles: new_triangles } ), h1.ret
\* being the payloads new_vertex_buffers
SliceMesh(h1, new_triangles) ==
    Mesh(AllocArray(h1, [kind |-> "Array", vals |-> new_triangles]), h1.ret,
         <<[name |-> "triangles", form |-> "array", ref |-> Len(h1.arrays) + 1]>>,
         NoOptions, GlobalGl)

\* the end of slice, from the result st of its loop
SliceFrom(h, m, st) ==
    IF /\ st.picked # <<>>
       /\ \E k \in 1..Len(h.meshes[m].vertexBuffers) :
              h.bufs[h.meshes[m].vertexBuffers[k].buf].data = Null
    THEN Throw(h, "TypeError")
    ELSE WithBounding(
             SliceMesh(IF st.picked = <<>> THEN Return(h, <<>>)
                       ELSE SlicePayloads(h, m, st.picked, 1, <<>>),
                       st.new_triangles))

\* Mesh.prototype.slice( start, length ); ret is the new mesh, Null when the
\* mesh has no indices
slice(h, m, start, length) ==
    LET indices_buffer == MapGet(h.meshes[m].indexBuffers, "triangles")
        indices == BufNums(h, indices_buffer)
        end == IF start + length >= Len(indices) THEN Len(indices) ELSE start + length
    IN  IF indices_buffer = Null
        THEN Return(Log(h, "splice in not indexed not supported yet"), Null)
        ELSE IF h.bufs[indices_buffer].data = Null THEN Throw(h, "TypeError")
        ELSE SliceFrom(h, m,
                 SliceLoop([reindex |-> [i \in 1..Len(indices) |-> -1],
                            new_triangles |-> <<>>, picked |-> <<>>], indices, start, end))

\* map[k] += n, map[k] = n when map[k] is missing or 0 (lines 1913-1916)
MapAdd(map, k, n) ==
    IF MapHas(map, k) /\ MapGet(map, k) # 0 THEN MapPut(map, k, MapGet(map, k) + n)
    ELSE MapPut(map, k, n)

\* the lengths of the buffers of a mesh added to the totals, from the k-th on
RECURSIVE AddLengths(_, _, _, _)
AddLengths(h, totals, map, k) ==
    IF k > Len(map) THEN totals
    ELSE AddLengths(h, MapAdd(totals, map[k].name, Len(h.arrays[h.bufs[map[k].buf].data].vals)),
                    map, k + 1)

\* the loop of lines 1939-1948 from the j-th bone of the mesh on: bones is the
\* merged list, by_index the position recorded for each bone name, prev the
\* new position of each bone of the mesh.  A recorded position 0 is falsy.
RECURSIVE AddBones(_, _, _)
AddBones(st, mesh_bones, j) ==
    IF j > Len(mesh_bones) THEN st
    ELSE LET b == mesh_bones[j]
             fresh == ~MapHas(st.by_index, b) \/ MapGet(st.by_index, b) = 0
             by_index == IF fresh THEN MapPut(st.by_index, b, Len(st.bones)) ELSE st.by_index
         IN  AddBones([bones |-> IF fresh THEN Append(st.bones, b) ELSE st.bones,
                       by_index |-> by_index,
                       prev |-> Append(st.prev, MapGet(by_index, b))],
                      mesh_bones, j + 1)

\* bones_buffer[j] = prev_bones_by_index[ bones_buffer[j] ], lines 1952-1955
Remapped(a, prev) ==
    TypedOf(a.kind,
        [j \in 1..Len(a.vals) |->
            LET old == ElemToNum(a.kind, a.vals[j])
            IN  IF IsFinite(old) /\ old % FScale = 0 /\ old >= 0 /\ old \div FScale < Len(prev)
                THEN prev[(old \div FScale) + 1] * One ELSE Undefined])

\* the test of line 1957, reached for a mesh without bones
mixedBones(st, M) == ~M.hasBones /\ Len(st.bones) > 0

\* one turn of the first loop of mergeMeshes, lines 1904-1960, for the mesh m
\* at position i (from 0)
MergeMeasure(st, m, i) ==
    LET h == st.h
        M == h.meshes[m]
        vertices == MapGet(M.vertexBuffers, "vertices")
        offset == st.current_vertex_offset
        length == Len(h.arrays[h.bufs[vertices].data].vals) \div 3
        bs == AddBones([bones |-> st.bones, by_index |-> st.by_index, prev |-> <<>>], M.bones, 1)
        bones_buffer == MapGet(M.vertexBuffers, "bone_indices")
        bdata == h.bufs[bones_buffer].data
        nulls == \/ \E k \in 1..Len(M.vertexBuffers) : h.bufs[M.vertexBuffers[k].buf].data = Null
                 \/ \E k \in 1..Len(M.indexBuffers) : h.bufs[M.indexBuffers[k].buf].data = Null
        measured == [st EXCEPT
                       !.vertex_offsets = Append(@, offset),
                       !.current_vertex_offset = @ + length,
                       !.vertex_buffers = AddLengths(h, @, M.vertexBuffers, 1),
                       !.index_buffers = AddLengths(h, @, M.indexBuffers, 1)]
        group == [name |-> i, start |-> offset, length |-> length, bounding |-> BBox_create]
    IN  IF vertices = Null \/ nulls THEN [st EXCEPT !.h = Throw(h, "TypeError")]
        ELSE IF M.hasBones
        THEN IF bones_buffer = Null
             THEN [measured EXCEPT !.h = Throw(h, "TypeError"),
                                   !.bones = bs.bones, !.by_index = bs.by_index]
             ELSE [measured EXCEPT !.h = [h EXCEPT !.arrays[bdata] = Remapped(@, bs.prev)],
                                   !.bones = bs.bones, !.by_index = bs.by_index,
                                   !.groups = Append(@, group)]
        ELSE IF mixedBones(st, M)
        THEN [measured EXCEPT
                !.h = Throw(h, "cannot merge meshes, one contains bones, the other doesnt")]
        ELSE [measured EXCEPT !.groups = Append(@, group)]

RECURSIVE MergeMeasureAll(_, _, _)
MergeMeasureAll(st, meshes_, i) ==
    IF i >= Len(meshes_) \/ st.h.exc # "" THEN st
    ELSE MergeMeasureAll(MergeMeasure(st, meshes_[i + 1], i), meshes_, i + 1)

\* the class of a merged vertex buffer, lines 1974-1986: that of the buffer of
\* this name in the last mesh of the list, Float32Array when it has none
MergedKind(h, last_mesh, name) ==
    LET one_buffer == MapGet(h.meshes[last_mesh].vertexBuffers, name)
    IN  IF one_buffer = Null THEN "Float32Array"
        ELSE IF h.arrays[h.bufs[one_buffer].data].kind = "Array" THEN "Float32Array"
        ELSE h.arrays[h.bufs[one_buffer].data].kind

\* the class of the merged index buffers, line 1994
MergedIndexKind(current_vertex_offset) ==
    IF current_vertex_offset < IndexLimit THEN "Uint16Array" ELSE "Uint32Array"

\* typed.set( data, at ), RangeError (ok FALSE) when data does not fit
TypedSet(target, data, at) ==
    [ok |-> at + Len(data.vals) <= Len(target.vals),
     a |-> [target EXCEPT !.vals =
               [p \in 1..Len(@) |->
                   IF p > at /\ p <= at + Len(data.vals)
                   THEN NumToElem(target.kind, ElemToNum(data.kind, data.vals[p - at]))
                   ELSE @[p]]]]

\* apply_offset adding nothing
apply_offset_none(array, start, length, offset) == array

\* apply_offset( array, start, length, offset ), lines 2059-2066
apply_offset(array, start, length, offset) ==
    IF offset = 0 THEN array
    ELSE [array EXCEPT !.vals =
             [p \in 1..Len(@) |->
                 IF p > start /\ p <= start + length
                 THEN NumToElem(array.kind, NAdd(ElemToNum(array.kind, @[p]), offset * One))
                 ELSE @[p]]]

\* lines 2007-2028 for the buffers of one mesh from the k-th on; st is
\* [vertex_buffers, index_buffers, offsets, exc]
RECURSIVE StoreVertices(_, _, _, _)
StoreVertices(st, h, M, k) ==
    IF k > Len(M.vertexBuffers) \/ st.exc # "" THEN st
    ELSE LET name == M.vertexBuffers[k].name
             data == h.arrays[h.bufs[M.vertexBuffers[k].buf].data]
             at == MapGet(st.offsets, name)
             set == TypedSet(MapGet(st.vertex_buffers, name), data, at)
         IN  StoreVertices(
                 IF ~set.ok THEN [st EXCEPT !.exc = "RangeError"]
                 ELSE [st EXCEPT !.vertex_buffers = MapPut(@, name, set.a),
                                 !.offsets = MapPut(@, name, at + Len(data.vals))],
                 h, M, k + 1)

\* lines 2030-2035
RECURSIVE StoreIndices(_, _, _, _, _)
StoreIndices(st, h, M, vertex_offset, k) ==
    IF k > Len(M.indexBuffers) \/ st.exc # "" THEN st
    ELSE LET name == M.indexBuffers[k].name
             data == h.arrays[h.bufs[M.indexBuffers[k].buf].data]
             at == MapGet(st.offsets, name)
             set == TypedSet(MapGet(st.index_buffers, name), data, at)
         IN  StoreIndices(
                 IF ~set.ok THEN [st EXCEPT !.exc = "RangeError"]
                 ELSE [st EXCEPT
                         !.index_buffers =
                             MapPut(@, name, apply_offset(set.a, at, Len(data.vals), vertex_offset)),
                         !.offsets = MapPut(@, name, at + Len(data.vals))],
                 h, M, vertex_offset, k + 1)

\* the loop of lines 2000-2036 from the mesh at position i (from 0) on
RECURSIVE StoreAll(_, _, _, _, _)
StoreAll(st, h, meshes_, vertex_offsets, i) ==
    IF i >= Len(meshes_) \/ st.exc # "" THEN st
    ELSE LET M == h.meshes[meshes_[i + 1]]
         IN  StoreAll(StoreIndices(StoreVertices(st, h, M, 1), h, M, vertex_offsets[i + 1], 1),
                      h, meshes_, vertex_offsets, i + 1)

\* the arrays of a map put on the heap as payloads; ret is the list of payloads
RECURSIVE PayloadsOf(_, _, _, _)
PayloadsOf(h, map, k, pays) ==
    IF k > Len(map) THEN Return(h, pays)
    ELSE LET h1 == AllocArray(h, map[k].buf)
         IN  PayloadsOf(h1, map, k + 1,
                 Append(pays, [name |-> map[k].name, form |-> "array", ref |-> h1.ret]))

\* new GL.Mesh( vertex_buffers, index_buffers, extra ), lines 2068-2070: h2.ret
\* is the payloads of the index buffers
MeshOfPayloads(h2, vertex_payloads, options) ==
    Mesh(h2, vertex_payloads, h2.ret, options, GlobalGl)

\* the merged arrays put on the heap and the mesh made of them; h1.ret is the
\* payloads of the vertex buffers
MergedMesh(h1, index_buffers, options) ==
    MeshOfPayloads(PayloadsOf(h1, index_buffers, 1, <<>>), h1.ret, options)

\* lines 2038-2083: the mesh of the arrays the second loop filled
MergeBuild(m1, stored) ==
    IF stored.exc # "" THEN Throw(m1.h, stored.exc)
    ELSE WithBounding(
             MergedMesh(PayloadsOf(m1.h, stored.vertex_buffers, 1, <<>>), stored.index_buffers,
                        [hasBones |-> Len(m1.bones) > 0, bones |-> m1.bones,
                         groups |-> m1.groups]))

\* the arrays allocated at lines 1963-1997, zeros of the total lengths
MergedVertexBuffers(m1, last_mesh) ==
    [k \in 1..Len(m1.vertex_buffers) |->
        [name |-> m1.vertex_buffers[k].name,
         buf |-> TypedZeros(MergedKind(m1.h, last_mesh, m1.vertex_buffers[k].name),
                            m1.vertex_buffers[k].buf)]]

MergedIndexBuffers(m1) ==
    [k \in 1..Len(m1.index_buffers) |->
        [name |-> m1.index_buffers[k].name,
         buf |-> TypedZeros(MergedIndexKind(m1.current_vertex_offset),
                            m1.index_buffers[k].buf)]]

\* the positions written so far, 0 for every buffer (lines 1968 and 1995)
MergedOffsets(m1) ==
    [k \in 1..(Len(m1.vertex_buffers) + Len(m1.index_buffers)) |->
        [name |-> IF k <= Len(m1.vertex_buffers) THEN m1.vertex_buffers[k].name
                  ELSE m1.index_buffers[k - Len(m1.vertex_buffers)].name,
         buf |-> 0]]

\* lines 1962-2083 of mergeMeshes, from the result m1 of its first loop
MergeStore(m1, meshes_) ==
    IF m1.h.exc # "" THEN m1.h
    ELSE MergeBuild(m1,
             StoreAll([vertex_buffers |-> MergedVertexBuffers(m1, meshes_[Len(meshes_)]),
                       index_buffers |-> MergedIndexBuffers(m1),
                       offsets |-> MergedOffsets(m1), exc |-> ""],
                      m1.h, meshes_, m1.vertex_offsets, 0))

\* Mesh.mergeMeshes( meshes ): meshes_ lists the meshes, given without
\* matrices and without options; ret is the merged mesh
mergeMeshes(h, meshes_) ==
    MergeStore(MergeMeasureAll(
                   [h |-> h, vertex_buffers |-> <<>>, index_buffers |-> <<>>,
                    vertex_offsets |-> <<>>, current_vertex_offset |-> 0, groups |-> <<>>,
                    bones |-> <<>>, by_index |-> <<>>], meshes_, 0),
               meshes_)

(***************************************************************************)
(* The application around GL.Buffer: it allocates arrays, constructs       *)
(* buffers and calls their methods.  `last` records the call just made.    *)
(***************************************************************************)
MaxBufs == 2

Commit(h, op, b, d, n) ==
    /\ loads' = loads
    /\ dynamic' = dynamic
    /\ arrays' = h.arrays
    /\ bufs' = h.bufs
    /\ dev' = h.dev
    /\ meshes' = h.meshes
    /\ calls' = h.calls
    /\ console' = h.console
    /\ last' = [op |-> op, exc |-> h.exc, b |-> b, d |-> d, n |-> n, ret |-> h.ret]
    /\ steps' = steps + 1

NoCall == [op |-> "", exc |-> "", b |-> 0, d |-> 0, n |-> 0, ret |-> 0]

\* the payloads the application builds its arrays from, as JavaScript numbers
Payloads == { <<-One, 300 * One>>,
              <<3 * One, Half, 70000 * One, 0>> }

ArrayKinds == SupportedKinds \ {"Uint8ClampedArray"}

\* var b = new GL.Buffer(target, data, spacing, undefined, gl); b.attribute = attr
BufNew(target, data, spacing, gl, attr) ==
    /\ steps < MaxSteps
    /\ bufs = <<>>
    /\ LET h == Buffer(Heap, target, data, spacing, gl)
       IN  Commit(IF h.exc = "" THEN [h EXCEPT !.bufs[h.ret].attribute = attr] ELSE h,
                  "Buffer", Len(bufs) + 1, data, spacing)

BufUpload(b) ==
    /\ steps < MaxSteps
    /\ Commit(upload(Heap, b), "upload", b, 0, 0)

BufUploadRange(b, start, size) ==
    /\ steps < MaxSteps
    /\ Commit(uploadRange(Heap, b, start, size), "uploadRange", b, start, size)

\* the numbers of the model are below PInf: an element e of a 32-bit integer
\* array is read as the number e * FScale, so the arrays hold no 32-bit integer
\* of PInf / FScale or more
Representable(as) ==
    \A i \in 1..Len(as) :
        as[i].kind \in {"Int32Array", "Uint32Array"}
        => \A k \in 1..Len(as[i].vals) : Abs(as[i].vals[k]) < PInf \div FScale

\* b.setData(d, offset); the application writes no bytes that make a 32-bit
\* integer larger than the numbers of the model
BufSetData(b, d, offset) ==
    /\ steps < MaxSteps
    /\ Representable(setData(Heap, b, d, offset).arrays)
    /\ Commit(setData(Heap, b, d, offset), "setData", b, d, offset)

\* b.setData( d.subarray(0, d.length / 2), offset ) on a buffer with storage
BufSetDataSubarray(b, d, offset) ==
    /\ steps < MaxSteps
    /\ bufs[b].data # Null
    /\ arrays[d].kind # "Array"
    /\ Representable(setData_subarray(Heap, b, d, 0, Len(arrays[d].vals) \div 2, offset).arrays)
    /\ Commit(setData_subarray(Heap, b, d, 0, Len(arrays[d].vals) \div 2, offset),
              "setData.subarray", b, d, offset)

BufClone(b, share) ==
    /\ steps < MaxSteps
    /\ Len(bufs) < MaxBufs
    /\ Commit(Buffer_clone(Heap, b, share), "clone", b, 0, IF share THEN 1 ELSE 0)

\* var c = new GL.Buffer(); c.fromJSON( b.toJSON() )
BufRoundTrip(b) ==
    /\ steps < MaxSteps
    /\ Len(bufs) < MaxBufs
    /\ bufs[b].data # Null
    /\ arrays[bufs[b].data].kind # "Array"
    /\ LET h1 == Buffer(Heap, "", Null, 0, GlobalGl)
           c == h1.ret
       IN  Commit([fromJSON(h1, c, toJSON(Heap, b)) EXCEPT !.ret = c], "fromJSON", b, 0, 0)

BufDelete(b) ==
    /\ steps < MaxSteps
    /\ Commit(Buffer_delete(Heap, b), "delete", b, 0, 0)

\* the application holds two arrays: one of a kind the device supports, and one
\* of the same kind, of bytes, of floats, of doubles or a plain array
InitBuffer ==
    /\ \E k1 \in ArrayKinds, p1 \in Payloads, p2 \in Payloads :
         \E k2 \in {k1, "Uint8Array", "Float32Array", "Float64Array", "Array"} :
            arrays = <<TypedOf(k1, p1), TypedOf(k2, p2)>>
    /\ bufs = <<>>
    /\ dev = <<>>
    /\ meshes = <<>>
    /\ calls = <<>>
    /\ console = <<>>
    /\ last = NoCall
    /\ steps = 0
    /\ loads = <<>>
    /\ dynamic = NoDynamic

NextBuffer ==
    \/ \E target \in {"ARRAY_BUFFER", "ELEMENT_ARRAY_BUFFER"}, data \in 0..Len(arrays),
          gl \in {Null, GlobalGl}, attr \in {"", "a_extra"} :
            BufNew(target, data, IF target = "ARRAY_BUFFER" THEN 2 ELSE 0, gl, attr)
    \/ \E b \in 1..Len(bufs) : BufUpload(b)
    \/ \E b \in 1..Len(bufs), r \in {<<0, 2>>, <<2, 4>>} : BufUploadRange(b, r[1], r[2])
    \/ \E b \in 1..Len(bufs), d \in 1..Len(arrays), offset \in {0, 1, 4} : BufSetData(b, d, offset)
    \/ \E b \in 1..Len(bufs), d \in 1..Len(arrays), offset \in {0, 4} :
          BufSetDataSubarray(b, d, offset)
    \/ \E b \in 1..Len(bufs), share \in BOOLEAN : BufClone(b, share)
    \/ \E b \in 1..Len(bufs) : BufRoundTrip(b)
    \/ \E b \in 1..Len(bufs) : BufDelete(b)

SpecBuffer == InitBuffer /\ [][NextBuffer]_vars

(***************************************************************************)
(* The application around GL.Mesh: it builds a mesh from typed arrays and  *)
(* calls the geometry processors on the meshes it holds.                   *)
(***************************************************************************)
EmptyHeap == [arrays |-> <<>>, bufs |-> <<>>, dev |-> <<>>, meshes |-> <<>>,
              calls |-> <<>>, console |-> <<>>, exc |-> "", ret |-> Null]

\* the numbers of a list of tuples, one after the other
RECURSIVE Flat(_)
Flat(rows) == IF rows = <<>> THEN <<>> ELSE rows[1] \o Flat(Tail(rows))

\* the points the application places its vertices at: four corners of the
\* unit square, two points off its plane, and a point 0.05 away from the origin
P0 == <<0, 0, 0>>

P1 == <<One, 0, 0>>

P2 == <<0, One, 0>>

P3 == <<One, One, 0>>

P4 == <<0, 0, One>>

P5 == <<2 * One, One, 0>>

PNear == <<0, One \div 20, 0>>

\* a point 0.1 away from the origin, at squared distance 0.01
PEdge == <<0, One \div 10, 0>>

WeldPoints == {P0, P1, P2, PNear, PEdge}

\* the vertex lists of the meshes: pairs of points, triangles, a quad, two
\* separate triangles and the same triangle twice
VertexLists ==
    {<<a, b>> : a \in WeldPoints, b \in WeldPoints}
    \cup {<<P0, P1, P2>>, <<P0, P2, P1>>, <<P1, P3, P2>>, <<P0, P1, P4>>, <<P4, P2, P5>>}
    \cup {<<P0, P1, P2, P3>>, <<P0, P1, P2, P2, P1, P3>>, <<P0, P1, P2, P0, P1, P2>>}

\* the index lists a mesh of n vertices may come with; <<>> is a mesh
\* without indices
IndexLists(n) ==
    IF n = 3 THEN {<<>>, <<0, 1, 2>>, <<2, 0, 1>>}
    ELSE IF n = 4 THEN {<<>>, <<0, 1, 2>>, <<1, 2, 3>>, <<0, 1, 2, 2, 1, 3>>}
    ELSE {<<>>}

\* the normal and the texture coordinates the application gives vertex i
\* (from 0), different from one vertex to the next
NormalOf(i) == <<i * One, 0, One>>

CoordOf(i) == <<(i % 2) * Half, ((i \div 2) % 2) * Half>>

MeshInputs ==
    {[vertices |-> vs, normals |-> ns, coords |-> cs, triangles |-> ts] :
        vs \in VertexLists, ns \in BOOLEAN, cs \in BOOLEAN,
        ts \in UNION {IndexLists(n) : n \in 2..6}}

\* new GL.Mesh({vertices: Float32Array, normals: ..., coords: ...},
\*             {triangles: Uint16Array}) for one input; an empty list of vertices
\* is a mesh made without "vertices", its other streams being of three vertices
BuildMesh(inp) ==
    LET n == IF inp.vertices = <<>> THEN 3 ELSE Len(inp.vertices)
        h4 == [EmptyHeap EXCEPT !.arrays =
                 <<TypedOf("Float32Array", Flat(inp.vertices)),
                   TypedOf("Float32Array", Flat([i \in 1..n |-> NormalOf(i - 1)])),
                   TypedOf("Float32Array", Flat([i \in 1..n |-> CoordOf(i - 1)])),
                   TypedOf("Uint16Array", [i \in 1..Len(inp.triangles) |->
                                              inp.triangles[i] * One])>>]
        vertexbuffers ==
            (IF inp.vertices = <<>> THEN <<>>
             ELSE <<[name |-> "vertices", form |-> "array", ref |-> 1]>>)
            \o (IF inp.normals THEN <<[name |-> "normals", form |-> "array", ref |-> 2]>> ELSE <<>>)
            \o (IF inp.coords THEN <<[name |-> "coords", form |-> "array", ref |-> 3]>> ELSE <<>>)
        indexbuffers ==
            IF inp.triangles = <<>> THEN <<>>
            ELSE <<[name |-> "triangles", form |-> "array", ref |-> 4]>>
    IN  Mesh(h4, vertexbuffers, indexbuffers, NoOptions, GlobalGl)

\* the variables hold the heap h
Holds(h) ==
    /\ arrays = h.arrays
    /\ bufs = h.bufs
    /\ dev = h.dev
    /\ meshes = h.meshes
    /\ calls = h.calls
    /\ console = h.console

\* the heap a call leaves: a call that throws returns nothing
Done(h) == IF h.exc # "" THEN [h EXCEPT !.ret = Null] ELSE h

MComputeNormals(m) ==
    /\ steps < MaxSteps
    /\ Commit(Done(computeNormals(Heap, m)), "computeNormals", m, 0, 0)

MComputeTangents(m) ==
    /\ steps < MaxSteps
    /\ Commit(Done(computeTangents(Heap, m)), "computeTangents", m, 0, 0)

MComputeIndices(m) ==
    /\ steps < MaxSteps
    /\ Commit(Done(computeIndices(Heap, m)), "computeIndices", m, 0, 0)

MExplodeIndices(m) ==
    /\ steps < MaxSteps
    /\ Commit(Done(explodeIndices(Heap, m, "triangles")), "explodeIndices", m, 0, 0)

MComputeTextureCoordinates(m) ==
    /\ steps < MaxSteps
    /\ Commit(Done(computeTextureCoordinates(Heap, m)), "computeTextureCoordinates", m, 0, 0)

MFlipNormals(m) ==
    /\ steps < MaxSteps
    /\ Commit(Done(flipNormals(Heap, m)), "flipNormals", m, 0, 0)

MComputeWireframe(m) ==
    /\ steps < MaxSteps
    /\ Commit(Done(computeWireframe(Heap, m)), "computeWireframe", m, 0, 0)

MUpdateBoundingBox(m) ==
    /\ steps < MaxSteps
    /\ Commit(Done(updateBoundingBox(Heap, m)), "updateBoundingBox", m, 0, 0)

MSlice(m, start, length) ==
    /\ steps < MaxSteps
    /\ Commit(Done(slice(Heap, m, start, length)), "slice", m, start, length)

\* Mesh.mergeMeshes([{mesh: a}, {mesh: b}, ...]); last.b is the list
MMerge(list) ==
    /\ steps < MaxSteps
    /\ Commit(Done(mergeMeshes(Heap, list)), "mergeMeshes", list, 0, 0)

InitMesh ==
    /\ \E inp \in MeshInputs :
         /\ inp.triangles \in IndexLists(Len(inp.vertices))
         /\ Holds(BuildMesh(inp))
    /\ last = NoCall
    /\ steps = 0
    /\ loads = <<>>
    /\ dynamic = NoDynamic

NextMesh ==
    \/ \E m \in 1..Len(meshes) : MComputeNormals(m)
    \/ \E m \in 1..Len(meshes) : MComputeTangents(m)
    \/ \E m \in 1..Len(meshes) : MComputeIndices(m)
    \/ \E m \in 1..Len(meshes) : MExplodeIndices(m)
    \/ \E m \in 1..Len(meshes) : MComputeTextureCoordinates(m)
    \/ \E m \in 1..Len(meshes) : MFlipNormals(m)
    \/ \E m \in 1..Len(meshes) : MComputeWireframe(m)
    \/ \E m \in 1..Len(meshes) : MUpdateBoundingBox(m)
    \/ \E m \in 1..Len(meshes), start \in {0, 3} : MSlice(m, start, 3)
    \/ \E a \in 1..Len(meshes), b \in 1..Len(meshes) : MMerge(<<a, b>>)

SpecMesh == InitMesh /\ [][NextMesh]_vars

(***************************************************************************)
(* The application around mergeMeshes: it holds two meshes, a triangle or  *)
(* a quad each, with or without a skeleton, and merges the meshes it has.  *)
(***************************************************************************)
MergeInputs ==
    {[vertices |-> g[1], triangles |-> g[2], skinned |-> sk] :
        g \in {<<(<<P0, P1, P2>>), (<<0, 1, 2>>)>>,
               <<(<<P0, P1, P2, P3>>), (<<0, 1, 2, 2, 1, 3>>)>>},
        sk \in BOOLEAN}

\* new GL.Mesh({vertices: Float32Array, bone_indices: Uint8Array},
\*             {triangles: Uint16Array}, {bones: [["hip", matrix]]}) on the
\* heap h; a mesh without skeleton has neither bone_indices nor bones
BuildIn(h, inp) ==
    LET k == Len(h.arrays)
        h1 == [h EXCEPT !.arrays = @ \o
                 <<TypedOf("Float32Array", Flat(inp.vertices)),
                   TypedZeros("Uint8Array", 4 * Len(inp.vertices)),
                   TypedOf("Uint16Array", [i \in 1..Len(inp.triangles) |->
                                              inp.triangles[i] * One])>>]
        vertexbuffers ==
            <<[name |-> "vertices", form |-> "array", ref |-> k + 1]>>
            \o (IF inp.skinned
                THEN <<[name |-> "bone_indices", form |-> "array", ref |-> k + 2]>>
                ELSE <<>>)
        indexbuffers == <<[name |-> "triangles", form |-> "array", ref |-> k + 3]>>
    IN  Mesh(h1, vertexbuffers, indexbuffers,
             IF inp.skinned THEN [hasBones |-> TRUE, bones |-> <<"hip">>, groups |-> <<>>]
             ELSE NoOptions,
             GlobalGl)

InitMerge ==
    /\ \E x \in MergeInputs, y \in MergeInputs : Holds(BuildIn(BuildIn(EmptyHeap, x), y))
    /\ last = NoCall
    /\ steps = 0
    /\ loads = <<>>
    /\ dynamic = NoDynamic

NextMerge ==
    \/ \E a \in 1..Len(meshes), b \in 1..Len(meshes) : MMerge(<<a, b>>)
    \/ \E a \in 1..Len(meshes), b \in 1..Len(meshes), c \in 1..Len(meshes) :
          MMerge(<<a, b, c>>)
    \/ \E m \in 1..Len(meshes) : MComputeWireframe(m)

SpecMerge == InitMerge /\ [][NextMerge]_vars

(***************************************************************************)
(* The application around Mesh.computeBoundingBox: it has a mesh and asks  *)
(* for the box of its vertices, with or without a mask.                    *)
(***************************************************************************)
PMinus == <<-One, -One, -One>>

PPlus == <<One, One, One>>

BoxLists == {<<PMinus, PPlus>>, <<P0, P1, P2>>, <<P4, P2, P5>>, <<P0, P1, P2, P3>>,
             <<PPlus, P0, PMinus, P5>>,
             <<P1, <<NaN, 0, One>>>>, <<P2, <<PInf, 0, 0>>>>, <<<<0, NInf, 0>>, P1, P2>>}

\* no mask, or a mask with an entry 0 or 1 for each of n vertices
MaskInputs(n) == {NoMask} \cup {[has |-> TRUE, vals |-> f] : f \in [1..n -> {0, 1}]}

\* GL.Mesh.computeBoundingBox( mesh.vertexBuffers["vertices"].data,
\*                             mesh.bounding, mask ); last.d is the mask and
\* last.ret is 1 when the call returns a box
MComputeBoundingBox(m, mask) ==
    /\ steps < MaxSteps
    /\ LET r == computeBoundingBox(
                    [has |-> TRUE,
                     nums |-> Nums(arrays[bufs[MapGet(meshes[m].vertexBuffers,
                                                      "vertices")].data])],
                    meshes[m].bounding, mask)
       IN  Commit([(IF r.warn = "" THEN Heap ELSE Log(Heap, r.warn))
                      EXCEPT !.meshes[m].bounding = r.bb,
                             !.ret = IF r.returned THEN 1 ELSE 0],
                  "computeBoundingBox", m, mask, 0)

\* var bb = mesh.getBoundingBox(); last.d is the box returned
MGetBoundingBox(m) ==
    /\ steps < MaxSteps
    /\ Commit([Heap EXCEPT !.ret = 1], "getBoundingBox", m, getBoundingBox(Heap, m), 0)

InitBox ==
    /\ \E vs \in BoxLists :
         Holds(BuildMesh([vertices |-> vs, normals |-> FALSE, coords |-> FALSE,
                          triangles |-> <<>>]))
    /\ last = NoCall
    /\ steps = 0
    /\ loads = <<>>
    /\ dynamic = NoDynamic

NextBox ==
    \/ \E m \in 1..Len(meshes) :
          \E mask \in MaskInputs(Len(arrays[bufs[MapGet(meshes[m].vertexBuffers,
                                                        "vertices")].data].vals) \div 3) :
             MComputeBoundingBox(m, mask)
    \/ \E m \in 1..Len(meshes) : MUpdateBoundingBox(m)
    \/ \E m \in 1..Len(meshes) : MGetBoundingBox(m)

SpecBox == InitBox /\ [][NextBox]_vars

(***************************************************************************)
(* The application around the life of a mesh: it clones and deletes the    *)
(* mesh and its buffers, gives it new streams and runs the processors.     *)
(***************************************************************************)
MClone(m) ==
    /\ steps < MaxSteps
    /\ Commit(Done(Mesh_clone(Heap, m, Null)), "Mesh.clone", m, 0, 0)

MCloneShared(m) ==
    /\ steps < MaxSteps
    /\ Commit(Done(cloneShared(Heap, m, Null)), "cloneShared", m, 0, 0)

MDelete(m) ==
    /\ steps < MaxSteps
    /\ Commit(Done(deleteBuffers(Heap, m)), "Mesh.delete", m, 0, 0)

\* b.clone( share ) on a buffer of a mesh
MBufferClone(b, share) ==
    /\ steps < MaxSteps
    /\ Commit(Done(Buffer_clone(Heap, b, share)), "clone", b, 0, IF share THEN 1 ELSE 0)

\* the streams the application adds to a mesh: one, two and three vertices of
\* three numbers
StreamData == {<<One, 2 * One, 3 * One>>,
               <<One, 0, 0, 0, One, 0>>,
               <<One, 0, 0, 0, One, 0, 0, 0, One>>}

\* mesh.createVertexBuffer( name, undefined, undefined, new Float32Array( nums ) );
\* last.d is the array
MCreateVertexBuffer(m, name, nums) ==
    /\ steps < MaxSteps
    /\ Commit(Done(createVertexBuffer(AllocArray(Heap, TypedOf("Float32Array", nums)),
                                      m, name, "", 0, Len(arrays) + 1)),
              "createVertexBuffer", m, Len(arrays) + 1, 0)

\* mesh.createIndexBuffer( "triangles", new Uint16Array( [0, 1, 2] ) ), or the
\* same with the plain array [0, 1, 2]; last.d is the array given
MCreateIndexBuffer(m, kind) ==
    /\ steps < MaxSteps
    /\ Commit(Done(createIndexBuffer(AllocArray(Heap, TypedOf(kind, <<0, One, 2 * One>>)),
                                     m, "triangles", Len(arrays) + 1)),
              "createIndexBuffer", m, Len(arrays) + 1, 0)

\* mesh.addBuffers( null, { triangles: [0, 1, 2] } ); last.d is the plain array
MAddIndexBuffers(m) ==
    /\ steps < MaxSteps
    /\ Commit(Done(addBuffers(AllocArray(Heap, TypedOf("Array", <<0, One, 2 * One>>)), m,
                              <<>>,
                              <<[name |-> "triangles", form |-> "array",
                                 ref |-> Len(arrays) + 1]>>)),
              "addBuffers.index", m, Len(arrays) + 1, 0)

\* mesh.addBuffers( { name: new Float32Array( nums ) } ); last.d is the array.
\* A stream whose name is not in the table is given to a mesh whose vertex
\* count divides its length, so that the stride inferred is an integer.
MAddBuffers(m, name, nums) ==
    /\ steps < MaxSteps
    /\ name \notin CommonNames
         => /\ VerticesLength(Heap, m) > 0
            /\ (3 * Len(nums)) % VerticesLength(Heap, m) = 0
    /\ Commit(Done(addBuffers(AllocArray(Heap, TypedOf("Float32Array", nums)), m,
                              <<[name |-> name, form |-> "array", ref |-> Len(arrays) + 1]>>,
                              <<>>)),
              "addBuffers", m, Len(arrays) + 1, 0)

\* the meshes of the application: a triangle alone, a quad of two triangles
\* with normals, texture coordinates and indices, a triangle with a vertex
\* given twice, and a mesh of texture coordinates and indices without "vertices"
LifeInputs ==
    {[vertices |-> <<P0, P1, P2>>, normals |-> FALSE, coords |-> FALSE, triangles |-> <<>>],
     [vertices |-> <<P0, P1, P2, P3>>, normals |-> TRUE, coords |-> TRUE,
      triangles |-> <<0, 1, 2, 2, 1, 3>>],
     [vertices |-> <<P0, P0, P1>>, normals |-> TRUE, coords |-> FALSE, triangles |-> <<>>],
     [vertices |-> <<>>, normals |-> FALSE, coords |-> TRUE, triangles |-> <<0, 1, 2>>]}

InitLife ==
    /\ \E inp \in LifeInputs : Holds(BuildMesh(inp))
    /\ last = NoCall
    /\ steps = 0
    /\ loads = <<>>
    /\ dynamic = NoDynamic

NextLife ==
    \/ \E b \in 1..Len(bufs) : BufUpload(b)
    \/ \E b \in 1..Len(bufs), share \in BOOLEAN : MBufferClone(b, share)
    \/ \E b \in 1..Len(bufs) : BufDelete(b)
    \/ \E m \in 1..Len(meshes) : MClone(m)
    \/ \E m \in 1..Len(meshes) : MCloneShared(m)
    \/ \E m \in 1..Len(meshes) : MDelete(m)
    \/ \E m \in 1..Len(meshes), name \in {"vertices", "coords"}, nums \in StreamData :
          MCreateVertexBuffer(m, name, nums)
    \/ \E m \in 1..Len(meshes), kind \in {"Uint16Array", "Array"} : MCreateIndexBuffer(m, kind)
    \/ \E m \in 1..Len(meshes) : MAddIndexBuffers(m)
    \/ \E m \in 1..Len(meshes), name \in {"coords", "custom"}, nums \in StreamData :
          MAddBuffers(m, name, nums)
    \/ \E m \in 1..Len(meshes) : MComputeNormals(m)
    \/ \E m \in 1..Len(meshes) : MComputeTangents(m)
    \/ \E m \in 1..Len(meshes) : MComputeIndices(m)
    \/ \E m \in 1..Len(meshes) : MExplodeIndices(m)
    \/ \E m \in 1..Len(meshes) : MComputeTextureCoordinates(m)
    \/ \E m \in 1..Len(meshes) : MComputeWireframe(m)

SpecLife == InitLife /\ [][NextLife]_vars

(***************************************************************************)
(* The application that frees the local data of a mesh: it uploads its     *)
(* buffers, frees the data of the mesh, makes buffers without data and     *)
(* deletes buffers.                                                        *)
(***************************************************************************)
\* the buffers of the vertex and index maps of mesh M
BuffersOf(M) ==
    {M.vertexBuffers[i].buf : i \in 1..Len(M.vertexBuffers)}
        \cup {M.indexBuffers[i].buf : i \in 1..Len(M.indexBuffers)}

\* Mesh.prototype.freeData
freeData(h, m) ==
    [h EXCEPT !.bufs = [b \in 1..Len(h.bufs) |->
                           IF b \in BuffersOf(h.meshes[m])
                           THEN [h.bufs[b] EXCEPT !.data = Null]
                           ELSE h.bufs[b]],
              !.ret = Null]

MFreeData(m) ==
    /\ steps < MaxSteps
    /\ Commit(Done(freeData(Heap, m)), "freeData", m, 0, 0)

\* new GL.Buffer( gl.ARRAY_BUFFER, null, 3, undefined, gl ): a buffer that never
\* had data
MNewBuffer(gl) ==
    /\ steps < MaxSteps
    /\ Commit(Done(Buffer(Heap, "ARRAY_BUFFER", Null, 3, gl)), "Buffer", Len(bufs) + 1, 0, 3)

InitFree ==
    /\ \E inp \in LifeInputs : Holds(BuildMesh(inp))
    /\ last = NoCall
    /\ steps = 0
    /\ loads = <<>>
    /\ dynamic = NoDynamic

NextFree ==
    \/ \E m \in 1..Len(meshes) : MFreeData(m)
    \/ \E gl \in {Null, GlobalGl} : MNewBuffer(gl)
    \/ \E b \in 1..Len(bufs) : BufUpload(b)
    \/ \E b \in 1..Len(bufs), r \in {<<0, 4>>, <<4, 8>>} : BufUploadRange(b, r[1], r[2])
    \/ \E b \in 1..Len(bufs) : BufDelete(b)

SpecFree == InitFree /\ [][NextFree]_vars

(***************************************************************************)
(* The application that writes new data into the buffers of a mesh, as     *)
(* typed arrays of several kinds and as plain arrays.                      *)
(***************************************************************************)
GivenKinds == {"Float32Array", "Float64Array", "Array"}

\* mesh.updateVertexBuffer( name, "a_given", 1, new kind( nums ) ) on a stream
\* the mesh has; last.d is the array
MUpdateVertexBuffer(m, name, kind, nums) ==
    /\ steps < MaxSteps
    /\ MapHas(meshes[m].vertexBuffers, name)
    /\ Commit(Done(updateVertexBuffer(AllocArray(Heap, TypedOf(kind, nums)),
                                      m, name, "a_given", 1, Len(arrays) + 1)),
              "updateVertexBuffer", m, Len(arrays) + 1, 0)

\* mesh.addBuffers( { name: new kind( nums ) } ) on a stream the mesh has;
\* last.d is the array
MAddBuffersExisting(m, name, kind, nums) ==
    /\ steps < MaxSteps
    /\ MapHas(meshes[m].vertexBuffers, name)
    /\ Commit(Done(addBuffers(AllocArray(Heap, TypedOf(kind, nums)), m,
                              <<[name |-> name, form |-> "array", ref |-> Len(arrays) + 1]>>,
                              <<>>)),
              "addBuffers", m, Len(arrays) + 1, 0)

\* buffer.setData( new kind( nums ) ); last.d is the array
MSetData(b, kind, nums) ==
    /\ steps < MaxSteps
    /\ Representable(setData(AllocArray(Heap, TypedOf(kind, nums)), b, Len(arrays) + 1, 0).arrays)
    /\ Commit(Done(setData(AllocArray(Heap, TypedOf(kind, nums)), b, Len(arrays) + 1, 0)),
              "setData", b, Len(arrays) + 1, 0)

\* buffer.fromJSON( { data_type: kind, data: nums, target: buffer.target,
\* attribute: "a_given", spacing: 1 } ); last.d is the array fromJSON makes
MFromJSON(b, kind, nums) ==
    /\ steps < MaxSteps
    /\ Commit(Done(fromJSON(Heap, b, [isnull |-> FALSE, data_type |-> kind, data |-> nums,
                                      target |-> bufs[b].target, attribute |-> "a_given",
                                      spacing |-> 1])),
              "fromJSON", b, Len(arrays) + 1, 0)

InitWrite ==
    /\ \E inp \in LifeInputs : Holds(BuildMesh(inp))
    /\ last = NoCall
    /\ steps = 0
    /\ loads = <<>>
    /\ dynamic = NoDynamic

NextWrite ==
    \/ \E m \in 1..Len(meshes), name \in {"vertices", "coords"}, kind \in GivenKinds,
          nums \in StreamData : MUpdateVertexBuffer(m, name, kind, nums)
    \/ \E m \in 1..Len(meshes), name \in {"vertices", "coords"}, kind \in GivenKinds,
          nums \in StreamData : MAddBuffersExisting(m, name, kind, nums)
    \/ \E b \in 1..Len(bufs), kind \in GivenKinds, nums \in StreamData : MSetData(b, kind, nums)
    \/ \E b \in 1..Len(bufs), kind \in GivenKinds \ {"Array"}, nums \in StreamData :
          MFromJSON(b, kind, nums)
    \/ \E m \in 1..Len(meshes) : MFreeData(m)

SpecWrite == InitWrite /\ [][NextWrite]_vars

(***************************************************************************)
(* Mesh.fromURL and the application that loads meshes with it.  The        *)
(* parsers and HttpRequest are not part of mesh.js: a parser fills the     *)
(* mesh it is given, returns nothing useful or throws, and HttpRequest     *)
(* calls one of its two callbacks once.                                    *)
(***************************************************************************)
\* the calls and callbacks a behaviour of the loading application has at most
MaxLoadSteps == 4

\* the formats a parser is registered for in Mesh.parsers
Parsers == {"obj"}

\* String.prototype.toLowerCase on the extensions of the model
toLowerCase(str) ==
    CASE str = "OBJ" -> "obj"
      [] str = "XYZ" -> "xyz"
      [] OTHER -> str

\* the extension fromURL looks the parser up with (lines 2105-2108)
ExtensionOf(url_extension, options_extension) ==
    IF options_extension # "" THEN options_extension ELSE toLowerCase(url_extension)

\* what the outcomes of a parser are
ParseOutcomes == {"parsed", "nothing", "threw"}

\* a parser called on the mesh: it fills the mesh with a triangle, returns
\* without filling it, or throws
Parser(h, m, outcome) ==
    CASE outcome = "parsed" ->
            [addBuffers(AllocArray(h, TypedOf("Float32Array", Flat(<<P0, P1, P2>>))), m,
                        <<[name |-> "vertices", form |-> "array", ref |-> Len(h.arrays) + 1]>>,
                        <<>>) EXCEPT !.ret = m]
      [] outcome = "threw" -> Throw(h, "parser error")
      [] OTHER -> Return(h, Null)

\* Mesh.prototype.parse( data, format, options )
parse(h, m, format, outcome) ==
    IF toLowerCase(format) \in Parsers THEN Parser(h, m, outcome)
    ELSE Throw(h, "GL.Mesh.parse: no parser found for format " \o toLowerCase(format))

\* Mesh.fromURL( "mesh." + url_extension, on_complete, gl, { extension:
\* options_extension } ): the heap it leaves, ret the mesh returned
fromURL(h, url_extension, options_extension) ==
    IF toLowerCase(ExtensionOf(url_extension, options_extension)) \notin Parsers
    THEN Return(Log(h, "No parser available in litegl to parse mesh of type"), Null)
    ELSE Mesh(h, <<>>, <<>>, NoOptions, GlobalGl)

\* the heap is committed and the requests become l; d is the extension the
\* call was about
CommitLoad(h, op, b, d, l) ==
    /\ arrays' = h.arrays
    /\ bufs' = h.bufs
    /\ dev' = h.dev
    /\ meshes' = h.meshes
    /\ calls' = h.calls
    /\ console' = h.console
    /\ last' = [op |-> op, exc |-> h.exc, b |-> b, d |-> d, n |-> 0, ret |-> h.ret]
    /\ steps' = steps + 1
    /\ loads' = l
    /\ dynamic' = dynamic

\* var mesh = Mesh.fromURL( ... ); the request is in flight when a mesh is
\* returned; last.b is the number of the request and last.d the extension
MFromURL(url_extension, options_extension, on_complete) ==
    /\ steps < MaxLoadSteps
    /\ LET h == fromURL(Heap, url_extension, options_extension)
       IN  CommitLoad(h, "fromURL", Len(loads) + 1,
                      ExtensionOf(url_extension, options_extension),
                      IF h.ret = Null THEN loads
                      ELSE Append(loads,
                                  [mesh |-> h.ret,
                                   extension |-> ExtensionOf(url_extension, options_extension),
                                   on_complete |-> on_complete,
                                   ready |-> "false",
                                   pending |-> TRUE,
                                   completions |-> <<>>]))

\* the callback of lines 2121-2126, run when the data of request i arrives:
\* an exception of parse leaves the callback at once
MFetchData(i, outcome) ==
    /\ steps < MaxLoadSteps
    /\ loads[i].pending
    /\ LET h == parse(Heap, loads[i].mesh, loads[i].extension, outcome)
       IN  CommitLoad(Done(h), "fetched", i, loads[i].extension,
                      [loads EXCEPT ![i].pending = FALSE,
                                    ![i].ready = IF h.exc # "" THEN @ ELSE "deleted",
                                    ![i].completions =
                                        IF h.exc = "" /\ loads[i].on_complete
                                        THEN Append(@, loads[i].mesh) ELSE @])

\* the callback of lines 2126-2129, run when the fetch of request i fails
MFetchError(i) ==
    /\ steps < MaxLoadSteps
    /\ loads[i].pending
    /\ CommitLoad(Return(Heap, Null), "fetch failed", i, loads[i].extension,
                  [loads EXCEPT ![i].pending = FALSE,
                                ![i].completions =
                                    IF loads[i].on_complete THEN Append(@, Null) ELSE @])

InitLoad ==
    /\ Holds(EmptyHeap)
    /\ last = NoCall
    /\ steps = 0
    /\ loads = <<>>
    /\ dynamic = NoDynamic

NextLoad ==
    \/ \E url_extension \in {"obj", "OBJ", "xyz"}, options_extension \in {"", "obj", "OBJ", "stl"},
          on_complete \in BOOLEAN : MFromURL(url_extension, options_extension, on_complete)
    \/ \E i \in 1..Len(loads), outcome \in ParseOutcomes : MFetchData(i, outcome)
    \/ \E i \in 1..Len(loads) : MFetchError(i)

SpecLoad == InitLoad /\ [][NextLoad]_vars

(***************************************************************************)
(* DynamicMesh and the application that adds points to one.  A state st of *)
(* a method is the heap h and the fields d of the DynamicMesh.             *)
(***************************************************************************)
\* the calls a behaviour of the application of the DynamicMesh has at most
MaxDynamicSteps == 4

\* resize reads normals, coords and colors (lines 2256-2261), which are
\* parameters of the constructor and not of resize: they are globals of the
\* page there, undeclared unless the page declares them
Globals == {[declared |-> FALSE, normals |-> FALSE, coords |-> FALSE, colors |-> FALSE],
            [declared |-> TRUE, normals |-> FALSE, coords |-> FALSE, colors |-> FALSE],
            [declared |-> TRUE, normals |-> TRUE, coords |-> FALSE, colors |-> FALSE],
            [declared |-> TRUE, normals |-> TRUE, coords |-> TRUE, colors |-> TRUE]}

DEFAULT_NORMAL == <<0, One, 0>>

DEFAULT_COORD == <<Half, Half>>

DEFAULT_COLOR == <<One, One, One, One>>

\* lines 2256-2261 for one stream: a new array of size * per zeros kept in field
Reserve(st, wanted, size, per, field) ==
    IF ~wanted THEN st
    ELSE [h |-> AllocArray(st.h, TypedZeros("Float32Array", size * per)),
          d |-> [st.d EXCEPT ![field] = Len(st.h.arrays) + 1]]

\* the object buffers of resize
DynamicBuffers(d, globals) ==
    <<[name |-> "vertices", form |-> "array", ref |-> d.vertex_data]>>
    \o (IF globals.normals
        THEN <<[name |-> "normals", form |-> "array", ref |-> d.normal_data]>> ELSE <<>>)
    \o (IF globals.coords
        THEN <<[name |-> "coords", form |-> "array", ref |-> d.coord_data]>> ELSE <<>>)
    \o (IF globals.colors
        THEN <<[name |-> "colors", form |-> "array", ref |-> d.color_data]>> ELSE <<>>)

\* lines 2263-2267, on the heap h1 addBuffers left
Resized(h1, d, size) ==
    IF h1.exc # "" THEN [h |-> h1, d |-> d]
    ELSE [h |-> Return(h1, Null),
          d |-> [d EXCEPT !.current_pos = 0, !.max_size = size, !.must_update = TRUE]]

\* DynamicMesh.prototype.resize( size )
resize(st, size, globals) ==
    LET s1 == Reserve(st, TRUE, size, 3, "vertex_data")
        s2 == Reserve(s1, globals.normals, size, 3, "normal_data")
        s3 == Reserve(s2, globals.coords, size, 2, "coord_data")
        s4 == Reserve(s3, globals.colors, size, 4, "color_data")
    IN  IF ~globals.declared
        THEN [h |-> Throw(s1.h, "ReferenceError"), d |-> s1.d]
        ELSE Resized(addBuffers(s4.h, s4.d.mesh, DynamicBuffers(s4.d, globals), <<>>),
                     s4.d, size)

\* new DynamicMesh( size ), size not 0
DynamicMesh(h, size, globals) ==
    resize([h |-> [h EXCEPT !.meshes = Append(h.meshes,
                       [gl |-> GlobalGl, vertexBuffers |-> <<>>, indexBuffers |-> <<>>,
                        hasBones |-> FALSE, bones |-> <<>>, groups |-> <<>>,
                        bounding |-> BBox_create])],
            d |-> [NoDynamic EXCEPT !.mesh = Len(h.meshes) + 1]],
           size, globals)

\* DynamicMesh.prototype.clear()
clear(st) == [st EXCEPT !.d.current_pos = 0]

\* the test of line 2277, pos >= this.max_size: pos is the variable declared at
\* line 2282, still undefined here, and undefined >= n is false
notEnoughSpace(d) == FALSE

\* data.set( values, at ) on the array id of the DynamicMesh, when it has one
\* and nothing was thrown before
PointSet(st, id, values, at) ==
    IF st.h.exc # "" \/ id = Null THEN st
    ELSE LET set == TypedSet(st.h.arrays[id], [kind |-> "Array", vals |-> values], at)
         IN  IF set.ok THEN [st EXCEPT !.h.arrays[id] = set.a]
             ELSE [st EXCEPT !.h = Throw(@, "RangeError")]

\* lines 2294-2295
PointAdded(st) ==
    IF st.h.exc # "" THEN st
    ELSE [st EXCEPT !.d.must_update = TRUE, !.h.ret = 1]

\* DynamicMesh.prototype.addPoint( vertex, normal, coord, color ); <<>> stands
\* for an argument left out, ret is 1 for true and 0 for false
addPoint(st, vertex, normal, coord, color) ==
    LET pos == st.d.current_pos
        d == st.d
        s0 == [st EXCEPT !.d.current_pos = pos + 1]
    IN  IF notEnoughSpace(st.d)
        THEN [st EXCEPT !.h = Return(Log(@, "DynamicMesh: not enough space, reserve more"), 0)]
        ELSE PointAdded(
                 PointSet(
                     PointSet(
                         PointSet(
                             PointSet(s0, d.vertex_data, vertex, pos * 3),
                             d.normal_data,
                             IF normal = <<>> THEN DEFAULT_NORMAL ELSE normal, pos * 3),
                         d.coord_data, IF coord = <<>> THEN DEFAULT_COORD ELSE coord, pos * 2),
                     d.color_data, IF color = <<>> THEN DEFAULT_COLOR ELSE color, pos * 4))

\* the state of a method called on the DynamicMesh of the application
DynamicState == [h |-> [Heap EXCEPT !.ret = 0], d |-> dynamic]

\* the heap and the fields of st are committed
CommitDynamic(st, op, n) ==
    /\ arrays' = st.h.arrays
    /\ bufs' = st.h.bufs
    /\ dev' = st.h.dev
    /\ meshes' = st.h.meshes
    /\ calls' = st.h.calls
    /\ console' = st.h.console
    /\ last' = [op |-> op, exc |-> st.h.exc, b |-> st.d.mesh, d |-> 0, n |-> n, ret |-> st.h.ret]
    /\ steps' = steps + 1
    /\ loads' = loads
    /\ dynamic' = st.d

\* var mesh = new DynamicMesh( size ): when the constructor throws the
\* application has no DynamicMesh
MNewDynamicMesh(size, globals) ==
    /\ steps < MaxDynamicSteps
    /\ dynamic.mesh = Null
    /\ LET st == DynamicMesh(Heap, size, globals)
       IN  CommitDynamic(IF st.h.exc # "" THEN [st EXCEPT !.d = NoDynamic] ELSE st,
                         "DynamicMesh", size)

\* mesh.addPoint( vertex ) and mesh.addPoint( vertex, normal, coord, color )
MAddPoint(vertex, normal, coord, color) ==
    /\ steps < MaxDynamicSteps
    /\ dynamic.mesh # Null
    /\ CommitDynamic(addPoint(DynamicState, vertex, normal, coord, color), "addPoint", 0)

MClear ==
    /\ steps < MaxDynamicSteps
    /\ dynamic.mesh # Null
    /\ CommitDynamic(clear(DynamicState), "clear", 0)

\* mesh.resize( size ): the page that has a DynamicMesh has declared the globals
MResize(size, globals) ==
    /\ steps < MaxDynamicSteps
    /\ dynamic.mesh # Null
    /\ globals.declared
    /\ CommitDynamic(resize(DynamicState, size, globals), "resize", size)

InitDynamic ==
    /\ Holds(EmptyHeap)
    /\ last = NoCall
    /\ steps = 0
    /\ loads = <<>>
    /\ dynamic = NoDynamic

NextDynamic ==
    \/ \E size \in {1, 2}, globals \in Globals : MNewDynamicMesh(size, globals)
    \/ \E vertex \in {P1, P5} : MAddPoint(vertex, <<>>, <<>>, <<>>)
    \/ MAddPoint(P2, P4, <<One, 0>>, <<0, 0, 0, One>>)
    \/ MClear
    \/ \E size \in {1, 2}, globals \in Globals : MResize(size, globals)

SpecDynamic == InitDynamic /\ [][NextDynamic]_vars

(***************************************************************************)
(* Claims about GL.Buffer, checked under SpecBuffer.                       *)
(***************************************************************************)
\* C1: setData(d) on a buffer that has storage of length L, with
\* d.length > L, throws and changes nothing: the buffer object, every array,
\* the device buffers, the log of device calls and the console are as before
\* the call.
C1_SetDataTooLongFails ==
    [][(/\ last'.op = "setData"
        /\ bufs[last'.b].data # Null
        /\ Len(arrays[last'.d].vals) > Len(arrays[bufs[last'.b].data].vals))
       => (/\ last'.exc # ""
           /\ bufs' = bufs
           /\ arrays' = arrays
           /\ dev' = dev
           /\ calls' = calls
           /\ console' = console)]_vars

\* a setData call was refused for lack of capacity
C1_Witness ==
    /\ last.op = "setData"
    /\ last.exc = "buffer is not big enough, you cannot set data to a smaller buffer"
    /\ Len(arrays[last.d].vals) = 4
    /\ Len(arrays[bufs[last.b].data].vals) = 2

\* C7: for a buffer b whose storage is of a supported kind, c.fromJSON(b.toJSON())
\* on a new buffer c succeeds and c has b's kind, spacing, attribute, target and
\* contents, in an array of its own.
C7_JSONRoundTrip ==
    (last.op = "fromJSON" /\ arrays[bufs[last.b].data].kind \in SupportedKinds)
    => LET B == bufs[last.b]
           C == bufs[last.ret]
       IN  /\ last.exc = ""
           /\ C.data # Null
           /\ C.data # B.data
           /\ arrays[C.data].kind = arrays[B.data].kind
           /\ arrays[C.data].vals = arrays[B.data].vals
           /\ C.spacing = B.spacing
           /\ C.attribute = B.attribute
           /\ C.target = B.target

\* a buffer of wrapped 16-bit integers, with an attribute name, went through JSON
C7_Witness ==
    /\ last.op = "fromJSON"
    /\ last.exc = ""
    /\ arrays[bufs[last.b].data].kind = "Int16Array"
    /\ arrays[bufs[last.b].data].vals = <<3, 0, 4464, 0>>
    /\ bufs[last.b].attribute = "a_extra"
    /\ bufs[last.b].spacing = 2

(***************************************************************************)
(* Claims about GL.Mesh, checked under SpecMesh.                           *)
(***************************************************************************)
\* the number of vertices of mesh m: the length of its "vertices" data over 3
VertexCount(m) ==
    IF MapGet(meshes[m].vertexBuffers, "vertices") = Null THEN 0
    ELSE Len(arrays[bufs[MapGet(meshes[m].vertexBuffers, "vertices")].data].vals) \div 3

\* every value of the index buffer b is the number of a vertex of mesh m
IndexBufferValid(m, b) ==
    bufs[b].data # Null
    => \A i \in 1..Len(arrays[bufs[b].data].vals) :
          LET v == ElemToNum(arrays[bufs[b].data].kind, arrays[bufs[b].data].vals[i])
          IN  IsFinite(v) /\ 0 <= v /\ v < VertexCount(m) * One

\* C11: in every state reached from a mesh with valid indices by the
\* processors, and for the meshes mergeMeshes and slice return, every value of
\* every index buffer attached to a mesh is below the vertex count of the mesh.
C11_IndexValidity ==
    \A m \in 1..Len(meshes) : \A k \in 1..Len(meshes[m].indexBuffers) :
        IndexBufferValid(m, meshes[m].indexBuffers[k].buf)

\* computeIndices welded the six vertices of two triangles into five and left
\* the "wireframe" buffer computed before, which names the vertex 5
C11_StaleWireframe ==
    /\ last.op = "computeIndices"
    /\ last.exc = ""
    /\ VertexCount(last.b) = 5
    /\ MapHas(meshes[last.b].indexBuffers, "wireframe")
    /\ arrays[bufs[MapGet(meshes[last.b].indexBuffers, "wireframe")].data].vals
          = <<0, 1, 1, 2, 2, 0, 3, 4, 4, 5, 5, 3>>

(***************************************************************************)
(* Claims about the life of buffers and meshes, checked under SpecLife.    *)
(***************************************************************************)
\* C12: no two distinct Buffer objects hold the same device buffer, and no
\* Buffer object refers to a device buffer that was deleted.
C12_ExclusiveDevice ==
    /\ \A b \in 1..Len(bufs) : \A c \in 1..Len(bufs) :
          (b # c /\ bufs[b].buffer # Null) => bufs[b].buffer # bufs[c].buffer
    /\ \A b \in 1..Len(bufs) :
          bufs[b].buffer # Null => ~dev[bufs[b].buffer].deleted

\* delete() on a buffer left its shared clone with the deleted device buffer
C12_DanglingClone ==
    /\ last.op = "delete"
    /\ last.exc = ""
    /\ bufs[last.b].buffer = Null
    /\ \E c \in 1..Len(bufs) :
          /\ c # last.b
          /\ bufs[c].data = bufs[last.b].data
          /\ bufs[c].buffer # Null
          /\ dev[bufs[c].buffer].deleted

\* C13: when the only mesh of the program is deleted, every device buffer
\* allocated so far (all were allocated for buffers of this mesh) is deleted
\* and the two maps of the mesh are empty.
C13_DeleteReleasesAll ==
    [][(/\ last'.op = "Mesh.delete"
        /\ last'.exc = ""
        /\ Len(meshes) = 1)
       => (/\ \A d \in 1..Len(dev') : dev'[d].deleted
           /\ meshes'[last'.b].vertexBuffers = <<>>
           /\ meshes'[last'.b].indexBuffers = <<>>)]_vars

\* the mesh was deleted after createVertexBuffer replaced its "vertices": the
\* maps are empty and the device buffer of the replaced buffer is still allocated
C13_LeakedAfterDelete ==
    /\ last.op = "Mesh.delete"
    /\ last.exc = ""
    /\ Len(meshes) = 1
    /\ meshes[1].vertexBuffers = <<>>
    /\ meshes[1].indexBuffers = <<>>
    /\ Len(bufs) = 2
    /\ bufs[1].name = "vertices" /\ bufs[2].name = "vertices"
    /\ ~dev[1].deleted
    /\ dev[2].deleted

\* C14: the storage of every buffer attached to a mesh has a length that is
\* a multiple of the spacing of the buffer.
C14_LengthMultipleOfSpacing ==
    \A m \in 1..Len(meshes) :
        \A map \in {meshes[m].vertexBuffers, meshes[m].indexBuffers} :
            \A k \in 1..Len(map) :
                bufs[map[k].buf].data # Null
                => Len(arrays[bufs[map[k].buf].data].vals) % bufs[map[k].buf].spacing = 0

\* addBuffers gave a mesh three numbers as "coords", whose stride is 2
C14_OddCoords ==
    /\ last.op = "addBuffers"
    /\ last.exc = ""
    /\ MapHas(meshes[last.b].vertexBuffers, "coords")
    /\ bufs[MapGet(meshes[last.b].vertexBuffers, "coords")].data = last.d
    /\ bufs[MapGet(meshes[last.b].vertexBuffers, "coords")].spacing = 2
    /\ Len(arrays[last.d].vals) = 3

\* C15: b.clone(false) on a buffer with storage returns a new buffer that has
\* an array of its own of the same kind and contents, the target and the
\* spacing of b and a device buffer of its own, and leaves b and its array as
\* they were.
C15_CloneCopies ==
    [][(/\ last'.op = "clone"
        /\ last'.n = 0
        /\ bufs[last'.b].data # Null)
       => (/\ last'.exc = ""
           /\ last'.ret \in (Len(bufs) + 1)..Len(bufs')
           /\ bufs'[last'.ret].data \notin {Null, bufs[last'.b].data}
           /\ arrays'[bufs'[last'.ret].data] = arrays[bufs[last'.b].data]
           /\ bufs'[last'.ret].target = bufs[last'.b].target
           /\ bufs'[last'.ret].spacing = bufs[last'.b].spacing
           /\ bufs'[last'.ret].buffer \notin {Null, bufs[last'.b].buffer}
           /\ bufs'[last'.b] = bufs[last'.b]
           /\ arrays'[bufs[last'.b].data] = arrays[bufs[last'.b].data])]_vars

\* clone(false) was called on the uploaded "vertices" buffer of a mesh and threw
C15_CloneThrew ==
    /\ last.op = "clone"
    /\ last.n = 0
    /\ last.exc = "TypeError"
    /\ bufs[last.b].name = "vertices"
    /\ bufs[last.b].data # Null
    /\ bufs[last.b].buffer # Null

\* the buffers of the map copy are those of the map original: the same names,
\* and under each name the same spacing, kind and contents in another array
SameBuffers(original, copy) ==
    /\ MapNames(copy) = MapNames(original)
    /\ Len(copy) = Len(original)
    /\ \A k \in 1..Len(original) :
          LET B == bufs[original[k].buf]
              C == bufs[MapGet(copy, original[k].name)]
          IN  /\ C.spacing = B.spacing
              /\ C.data # B.data
              /\ arrays[C.data] = arrays[B.data]

\* C16: mesh.clone() returns a mesh with the vertex and index buffers of the
\* mesh: the same names, spacing, kind and contents, each in an array of its own.
C16_CloneSameBuffers ==
    last.op = "Mesh.clone"
    => /\ last.exc = ""
       /\ last.ret # last.b
       /\ SameBuffers(meshes[last.b].vertexBuffers, meshes[last.ret].vertexBuffers)
       /\ SameBuffers(meshes[last.b].indexBuffers, meshes[last.ret].indexBuffers)

\* a mesh whose "tangents" computeTangents made with 4 components was cloned,
\* and the "tangents" of the clone have the spacing 3 of the table
C16_TangentsStride ==
    /\ last.op = "Mesh.clone"
    /\ last.exc = ""
    /\ MapHas(meshes[last.b].vertexBuffers, "tangents")
    /\ MapHas(meshes[last.ret].vertexBuffers, "tangents")
    /\ bufs[MapGet(meshes[last.b].vertexBuffers, "tangents")].spacing = 4
    /\ bufs[MapGet(meshes[last.ret].vertexBuffers, "tangents")].spacing = 3
    /\ arrays[bufs[MapGet(meshes[last.ret].vertexBuffers, "tangents")].data]
          = arrays[bufs[MapGet(meshes[last.b].vertexBuffers, "tangents")].data]

\* the numbers new are the rows of s numbers of old picked by the indices:
\* row i of new is the row indices[i] of old
ExpandedBy(new, old, indices, s) ==
    /\ Len(new) = Len(indices) * s
    /\ \A i \in 1..Len(indices) : \A c \in 1..s :
          (indices[i] * s + c <= Len(old)) => new[(i - 1) * s + c] = old[indices[i] * s + c]

\* C17: explodeIndices("triangles") on a mesh with the index buffer "triangles"
\* replaces every vertex buffer by its rows picked by the indices, under the
\* same name with the same attribute and spacing, and removes "triangles"; on
\* a mesh without "triangles" it changes nothing.
C17_ExplodeExpandsAll ==
    [][(last'.op = "explodeIndices")
       => IF MapHas(meshes[last'.b].indexBuffers, "triangles")
          THEN /\ last'.exc = ""
               /\ ~MapHas(meshes'[last'.b].indexBuffers, "triangles")
               /\ MapNames(meshes'[last'.b].vertexBuffers) = MapNames(meshes[last'.b].vertexBuffers)
               /\ \A k \in 1..Len(meshes[last'.b].vertexBuffers) :
                     LET B == bufs[meshes[last'.b].vertexBuffers[k].buf]
                         C == bufs'[MapGet(meshes'[last'.b].vertexBuffers,
                                           meshes[last'.b].vertexBuffers[k].name)]
                     IN  /\ C.spacing = B.spacing
                         /\ C.attribute = B.attribute
                         /\ ExpandedBy(Nums(arrays'[C.data]), Nums(arrays[B.data]),
                                       arrays[bufs[MapGet(meshes[last'.b].indexBuffers,
                                                          "triangles")].data].vals,
                                       B.spacing)
          ELSE /\ last'.exc = ""
               /\ UNCHANGED <<arrays, bufs, dev, meshes, calls, console>>]_vars

\* explodeIndices threw on a mesh whose "tangents" have 4 components
C17_TangentsDoNotFit ==
    /\ last.op = "explodeIndices"
    /\ last.exc = "RangeError"
    /\ MapHas(meshes[last.b].indexBuffers, "triangles")
    /\ MapHas(meshes[last.b].vertexBuffers, "tangents")
    /\ bufs[MapGet(meshes[last.b].vertexBuffers, "tangents")].spacing = 4

\* the processors that need the positions of the vertices
Processors == {"computeNormals", "computeTangents", "computeIndices",
               "computeTextureCoordinates", "computeWireframe"}

\* the lines of the console that name the buffer "vertices"
NamesVertices(line) ==
    line \in {"Cannot compute normals of a mesh without vertices",
              "Cannot compute tangents of a mesh without vertices",
              "Cannot compute uvs of a mesh without vertices"}

\* C18: a processor called on a mesh without "vertices" reports it, by an
\* exception or a line on the console that names the missing buffer, and
\* leaves the two maps of the mesh as they were.
C18_MissingVerticesReported ==
    [][(/\ last'.op \in Processors
        /\ ~MapHas(meshes[last'.b].vertexBuffers, "vertices"))
       => (/\ \/ last'.exc \notin {"", "TypeError", "RangeError"}
              \/ /\ Len(console') = Len(console) + 1
                 /\ NamesVertices(console'[Len(console')])
           /\ meshes'[last'.b].vertexBuffers = meshes[last'.b].vertexBuffers
           /\ meshes'[last'.b].indexBuffers = meshes[last'.b].indexBuffers)]_vars

\* computeIndices on a mesh without "vertices" ended with a TypeError and
\* nothing on the console
C18_BareTypeError ==
    /\ last.op = "computeIndices"
    /\ last.exc = "TypeError"
    /\ ~MapHas(meshes[last.b].vertexBuffers, "vertices")
    /\ MapHas(meshes[last.b].vertexBuffers, "coords")
    /\ console = <<>>

\* computeNormals on a mesh without "vertices" wrote its line on the console
C18_NormalsReported ==
    /\ last.op = "computeNormals"
    /\ last.exc = ""
    /\ ~MapHas(meshes[last.b].vertexBuffers, "vertices")
    /\ console = <<"Cannot compute normals of a mesh without vertices">>

(***************************************************************************)
(* Claims about the positions of the vertices, checked under SpecMesh.     *)
(***************************************************************************)

\* the numbers of the buffer "vertices" of mesh m in the given heaps; <<>> when
\* the mesh has no such buffer or the buffer has no array
Positions(ms, bs, as, m) ==
    IF ~MapHas(ms[m].vertexBuffers, "vertices") THEN <<>>
    ELSE IF bs[MapGet(ms[m].vertexBuffers, "vertices")].data = Null THEN <<>>
    ELSE Nums(as[bs[MapGet(ms[m].vertexBuffers, "vertices")].data])

\* the mesh m has positions
HasPositions(ms, bs, m) ==
    /\ MapHas(ms[m].vertexBuffers, "vertices")
    /\ bs[MapGet(ms[m].vertexBuffers, "vertices")].data # Null

Given(as, l) ==
    IF l.op = "setData" THEN as[l.d]
    ELSE ViewOf(as[l.d], 0, Len(as[l.d].vals) \div 2)

\* the call is a setData the claim speaks of, in the plainest setting: the
\* buffer has a context, a device buffer and storage of a supported kind, and
\* it is given another typed array of the same kind
PlainSetData(l) ==
    /\ l.op \in {"setData", "setData.subarray"}
    /\ bufs[l.b].data # Null
    /\ bufs[l.b].gl # Null
    /\ bufs[l.b].buffer # Null
    /\ arrays[bufs[l.b].data].kind \in SupportedKinds
    /\ arrays[l.d].kind = arrays[bufs[l.b].data].kind
    /\ l.d # bufs[l.b].data

\* the log of device calls grew by one bind and the call fn on device buffer d
\* over the bytes start .. start + size - 1
OneUpload(fn, d, start, size) ==
    /\ Len(calls') = Len(calls) + 2
    /\ SubSeq(calls', 1, Len(calls)) = calls
    /\ calls'[Len(calls') - 1].fn = "bindBuffer"
    /\ calls'[Len(calls')] = [fn |-> fn, buf |-> d, start |-> start, size |-> size]

\* C20: on a buffer with storage of length L, setData(d) with d.length = L
\* copies the values of d into the storage, which stays the same array, and
\* uploads the whole of it once; setData(d, offset) with d.length < L, where
\* the bytes of d fit at offset, overwrites the bytes offset .. offset + size
\* of d - 1 of the storage with the bytes of the elements of d, leaves every
\* other byte as it was and uploads that range of bytes.
C20_SetDataWrites ==
    [][PlainSetData(last')
       => LET b == last'.b
              S == bufs[b].data
              d == Given(arrays, last')
              n == byteLength(d)
              at == last'.n
          IN  /\ Len(d.vals) = Len(arrays[S].vals)
                    => /\ last'.exc = ""
                       /\ bufs' = bufs
                       /\ arrays'[S].vals = d.vals
                       /\ OneUpload("bufferData", bufs[b].buffer, 0, byteLength(arrays[S]))
              /\ (Len(d.vals) < Len(arrays[S].vals) /\ at + n <= byteLength(arrays[S]))
                    => /\ last'.exc = ""
                       /\ bufs' = bufs
                       /\ \A i \in 1..byteLength(arrays[S]) :
                             ToBytes(arrays'[S])[i] =
                                IF i > at /\ i <= at + n THEN ToBytes(d)[i - at]
                                ELSE ToBytes(arrays[S])[i]
                       /\ OneUpload("bufferSubData", bufs[b].buffer, at, n)]_vars

\* setData was given the first two of the four floats of an array, and wrote
\* and uploaded the sixteen bytes of the four
C20_WholeBufferWritten ==
    /\ last.op = "setData.subarray"
    /\ last.exc = ""
    /\ arrays[last.d].kind = "Float32Array"
    /\ Len(arrays[last.d].vals) = 4
    /\ last.d # bufs[last.b].data
    /\ arrays[bufs[last.b].data] = arrays[last.d]
    /\ calls[Len(calls)] = [fn |-> "bufferSubData", buf |-> bufs[last.b].buffer,
                            start |-> 0, size |-> 16]

(***************************************************************************)
(* Claims about computeIndices, checked under SpecMesh.                    *)
(***************************************************************************)
\* the numbers of the vertex buffer `name` of mesh m in the given heaps; <<>>
\* when the mesh has no such buffer
Stream(ms, bs, as, m, name) ==
    IF ~MapHas(ms[m].vertexBuffers, name) THEN <<>>
    ELSE IF bs[MapGet(ms[m].vertexBuffers, name)].data = Null THEN <<>>
    ELSE Nums(as[bs[MapGet(ms[m].vertexBuffers, name)].data])

\* row k (from 0) of n numbers
RowOf(nums, k, n) == SubSeq(nums, k * n + 1, k * n + n)

\* the call is a computeIndices that succeeded on a mesh with positions and
\* without the index buffer "triangles"
WeldedUnindexed(l) ==
    /\ l.op = "computeIndices"
    /\ l.exc = ""
    /\ HasPositions(meshes, bufs, l.b)
    /\ ~MapHas(meshes[l.b].indexBuffers, "triangles")

\* C2: after computeIndices on an unindexed mesh of N vertices "triangles" has
\* N entries, the output vertex triangles[i] is within squared distance 0.01
\* of the input vertex i, and every output slot holds the position, the
\* normal and the uv of one input vertex.
C2_IndicesNearInputs ==
    [][WeldedUnindexed(last')
       => LET m == last'.b
              old == Stream(meshes, bufs, arrays, m, "vertices")
              new == Stream(meshes', bufs', arrays', m, "vertices")
              N == Len(old) \div 3
              K == Len(new) \div 3
          IN  /\ MapHas(meshes'[m].indexBuffers, "triangles")
              /\ bufs'[MapGet(meshes'[m].indexBuffers, "triangles")].data # Null
              /\ LET T == arrays'[bufs'[MapGet(meshes'[m].indexBuffers, "triangles")].data].vals
                 IN  /\ Len(T) = N
                     /\ \A i \in 1..N :
                           /\ T[i] < K
                           /\ IsNear(RowOf(old, i - 1, 3), RowOf(new, T[i], 3))
              /\ \A k \in 0..(K - 1) : \E i \in 0..(N - 1) :
                    /\ RowOf(new, k, 3) = RowOf(old, i, 3)
                    /\ \A name \in {"normals", "coords"} :
                          MapHas(meshes[m].vertexBuffers, name)
                          => RowOf(Stream(meshes', bufs', arrays', m, name), k,
                                   IF name = "coords" THEN 2 ELSE 3)
                             = RowOf(Stream(meshes, bufs, arrays, m, name), i,
                                     IF name = "coords" THEN 2 ELSE 3)]_vars

\* computeIndices kept two vertices one unit apart and gave both the index 0
C2_BothIndicesZero ==
    /\ last.op = "computeIndices"
    /\ last.exc = ""
    /\ Stream(meshes, bufs, arrays, last.b, "vertices") = Flat(<<P0, P1>>)
    /\ MapHas(meshes[last.b].indexBuffers, "triangles")
    /\ arrays[bufs[MapGet(meshes[last.b].indexBuffers, "triangles")].data].vals = <<0, 0>>

\* the squared distance of two points with finite coordinates, in units of
\* 1 / FScale^2
SqDist(a, b) ==
    (a[1] - b[1]) * (a[1] - b[1]) + (a[2] - b[2]) * (a[2] - b[2])
        + (a[3] - b[3]) * (a[3] - b[3])

\* C3: computeIndices on two vertices with the same coordinates leaves one
\* vertex and the indices 0 and 0; on two vertices at squared distance 0.01
\* or more it leaves the two vertices.
C3_WeldsPairs ==
    [][(/\ WeldedUnindexed(last')
        /\ Len(Stream(meshes, bufs, arrays, last'.b, "vertices")) = 6)
       => LET m == last'.b
              old == Stream(meshes, bufs, arrays, m, "vertices")
              new == Stream(meshes', bufs', arrays', m, "vertices")
              a == RowOf(old, 0, 3)
              b == RowOf(old, 1, 3)
          IN  /\ (a = b)
                    => /\ new = a
                       /\ MapHas(meshes'[m].indexBuffers, "triangles")
                       /\ arrays'[bufs'[MapGet(meshes'[m].indexBuffers, "triangles")].data].vals
                             = <<0, 0>>
              /\ (100 * SqDist(a, b) >= One * One) => new = a \o b]_vars

\* computeIndices kept the two vertices that are exactly 0.1 apart
C3_KeptAtThreshold ==
    /\ last.op = "computeIndices"
    /\ last.exc = ""
    /\ Stream(meshes, bufs, arrays, last.b, "vertices") = Flat(<<P0, PEdge>>)
    /\ 100 * SqDist(P0, PEdge) = One * One

\* computeIndices made one vertex of two equal ones
C3_WeldedEqual ==
    /\ last.op = "computeIndices"
    /\ last.exc = ""
    /\ Stream(meshes, bufs, arrays, last.b, "vertices") = P1
    /\ arrays[bufs[MapGet(meshes[last.b].indexBuffers, "triangles")].data].vals = <<0, 0>>

(***************************************************************************)
(* Claims about mergeMeshes, checked under SpecMerge.                      *)
(***************************************************************************)
\* C4: mergeMeshes throws and makes no mesh when its list has a mesh with
\* bones and a mesh without, in either order.
C4_MixedBonesThrow ==
    [][(/\ last'.op = "mergeMeshes"
        /\ \E i \in 1..Len(last'.b) : meshes[last'.b[i]].hasBones
        /\ \E i \in 1..Len(last'.b) : ~meshes[last'.b[i]].hasBones)
       => (/\ last'.exc # ""
           /\ Len(meshes') = Len(meshes))]_vars

\* mergeMeshes merged a mesh without bones followed by a mesh with bones
C4_MergedUnskinnedFirst ==
    /\ last.op = "mergeMeshes"
    /\ last.exc = ""
    /\ ~meshes[last.b[1]].hasBones
    /\ meshes[last.b[2]].hasBones
    /\ last.ret = Len(meshes)
    /\ meshes[last.ret].bones = <<"hip">>

\* the values of the index buffer `name` of mesh m before the call, <<>> when
\* the mesh has no such buffer
IndexValues(m, name) ==
    IF ~MapHas(meshes[m].indexBuffers, name) THEN <<>>
    ELSE arrays[bufs[MapGet(meshes[m].indexBuffers, name)].data].vals

\* the vertices of the meshes before position k of the list
RECURSIVE VerticesBefore(_, _)
VerticesBefore(list, k) ==
    IF k <= 1 THEN 0
    ELSE VerticesBefore(list, k - 1) + VertexCount(list[k - 1])

\* the length of the index buffer `name` in the meshes before position k
RECURSIVE IndicesBefore(_, _, _)
IndicesBefore(list, k, name) ==
    IF k <= 1 THEN 0
    ELSE IndicesBefore(list, k - 1, name) + Len(IndexValues(list[k - 1], name))

\* C5: in the mesh mergeMeshes returns, every index copied from the k-th mesh
\* of the list is the index of the source plus the number of vertices of the
\* meshes before it, and stands at its position in the source plus the length
\* of that index buffer in the meshes before it; the indices of the first
\* mesh are as they were.
C5_IndicesRebased ==
    [][(last'.op = "mergeMeshes" /\ last'.exc = "")
       => LET list == last'.b
              merged == meshes'[last'.ret].indexBuffers
          IN  \A e \in 1..Len(merged) :
                 LET name == merged[e].name
                     T == arrays'[bufs'[merged[e].buf].data].vals
                 IN  /\ Len(T) = IndicesBefore(list, Len(list) + 1, name)
                     /\ \A k \in 1..Len(list) :
                           \A p \in 1..Len(IndexValues(list[k], name)) :
                              T[IndicesBefore(list, k, name) + p]
                                 = IndexValues(list[k], name)[p] + VerticesBefore(list, k)]_vars

\* a triangle and a quad were merged: the indices of the quad are 3 more
C5_QuadAfterTriangle ==
    /\ last.op = "mergeMeshes"
    /\ last.exc = ""
    /\ Len(last.b) = 2
    /\ IndexValues(last.b[1], "triangles") = <<0, 1, 2>>
    /\ IndexValues(last.b[2], "triangles") = <<0, 1, 2, 2, 1, 3>>
    /\ IndexValues(last.ret, "triangles") = <<0, 1, 2, 3, 4, 5, 5, 4, 6>>

(***************************************************************************)
(* Claims about the storage of indices, checked under SpecLife.            *)
(***************************************************************************)
\* C6: an index buffer addBuffers or createIndexBuffer is given as a plain
\* array is attached with 16-bit unsigned storage when the mesh has 65536
\* vertices or fewer, a mesh without "vertices" included, and with 32-bit
\* unsigned storage when it has more.
C6_PlainIndicesTyped ==
    [][(/\ last'.op \in {"createIndexBuffer", "addBuffers.index"}
        /\ arrays'[last'.d].kind = "Array")
       => (/\ last'.exc = ""
           /\ MapHas(meshes'[last'.b].indexBuffers, "triangles")
           /\ bufs'[MapGet(meshes'[last'.b].indexBuffers, "triangles")].data # Null
           /\ arrays'[bufs'[MapGet(meshes'[last'.b].indexBuffers, "triangles")].data].kind
                 = IF VertexCount(last'.b) <= IndexLimit THEN "Uint16Array" ELSE "Uint32Array"
           /\ arrays'[bufs'[MapGet(meshes'[last'.b].indexBuffers, "triangles")].data].vals
                 = <<0, 1, 2>>)]_vars

\* createIndexBuffer was given a plain array on a mesh without "vertices" and
\* threw
C6_PlainIndicesRefused ==
    /\ last.op = "createIndexBuffer"
    /\ last.exc = "Buffers must be typed arrays"
    /\ arrays[last.d].kind = "Array"
    /\ ~MapHas(meshes[last.b].vertexBuffers, "vertices")

(***************************************************************************)
(* Claims about Mesh.computeBoundingBox, checked under SpecBox.            *)
(***************************************************************************)
\* the least and the greatest k-th coordinate of the vertices numbered in S
MinOver(nums, S, k) ==
    CHOOSE x \in {nums[3 * i + k] : i \in S} : \A i \in S : x <= nums[3 * i + k]

MaxOver(nums, S, k) ==
    CHOOSE x \in {nums[3 * i + k] : i \in S} : \A i \in S : x >= nums[3 * i + k]

\* the vertices a mask lets contribute: all of them without a mask
Marked(mask, N) ==
    IF mask.has THEN {i \in 0..(N - 1) : mask.vals[i + 1] # 0} ELSE 0..(N - 1)

\* C8: computeBoundingBox over a non-empty array of finite vertices returns the box whose
\* center is the midpoint of the least and the greatest coordinates of the
\* vertices that contribute, and whose half-size is half their extent; all
\* the vertices contribute without a mask, and with a mask only those whose
\* entry is not zero: when none is marked no box is computed.
C8_BoxOfMarkedVertices ==
    [][(/\ last'.op = "computeBoundingBox"
        /\ VertexCount(last'.b) > 0
        /\ AllFinite(Positions(meshes, bufs, arrays, last'.b)))
       => LET m == last'.b
              nums == Positions(meshes, bufs, arrays, m)
              S == Marked(last'.d, VertexCount(m))
              bb == meshes'[m].bounding
          IN  IF S = {}
              THEN /\ last'.ret = 0
                   /\ meshes'[m].bounding = meshes[m].bounding
              ELSE /\ last'.ret = 1
                   /\ \A k \in 1..3 :
                         /\ Abs(2 * bb.center[k]
                                  - (MinOver(nums, S, k) + MaxOver(nums, S, k))) <= 1
                         /\ bb.halfsize[k] = MaxOver(nums, S, k) - bb.center[k]]_vars

\* with a mask of zeros, the box returned is that of the first vertex
C8_UnmarkedVertexBoxed ==
    /\ last.op = "computeBoundingBox"
    /\ last.d = [has |-> TRUE, vals |-> <<0, 0>>]
    /\ last.ret = 1
    /\ Positions(meshes, bufs, arrays, last.b) = PMinus \o PPlus
    /\ meshes[last.b].bounding.center = PMinus
    /\ meshes[last.b].bounding.halfsize = Zero3

\* without a mask, the box of (-1,-1,-1) and (1,1,1) has center (0,0,0) and
\* half-size (1,1,1)
C8_UnitBox ==
    /\ last.op = "computeBoundingBox"
    /\ ~last.d.has
    /\ last.ret = 1
    /\ Positions(meshes, bufs, arrays, last.b) = PMinus \o PPlus
    /\ meshes[last.b].bounding.center = Zero3
    /\ meshes[last.b].bounding.halfsize = PPlus

(***************************************************************************)
(* Claims about computeNormals, checked under SpecMesh.                    *)
(***************************************************************************)
\* the numbers of the corners of the only triangle of mesh m, <<>> when the
\* mesh is not one triangle: three vertices without indices, or three indices
\* that name three different vertices
OnlyTriangle(m) ==
    IF ~HasPositions(meshes, bufs, m) THEN <<>>
    ELSE IF ~MapHas(meshes[m].indexBuffers, "triangles")
    THEN (IF VertexCount(m) = 3 /\ Len(Positions(meshes, bufs, arrays, m)) = 9
          THEN <<0, 1, 2>> ELSE <<>>)
    ELSE LET t == IndexValues(m, "triangles")
         IN  IF /\ Len(t) = 3
                /\ \A i \in 1..3 : t[i] < VertexCount(m)
                /\ t[1] # t[2] /\ t[2] # t[3] /\ t[1] # t[3]
                /\ Len(Positions(meshes, bufs, arrays, m)) % 3 = 0
             THEN t ELSE <<>>

\* the cross product of two vectors of integers
IntCross(a, b) ==
    <<a[2] * b[3] - a[3] * b[2], a[3] * b[1] - a[1] * b[3], a[1] * b[2] - a[2] * b[1]>>

\* (v2 - v1) x (v3 - v1) for the corners t of the positions nums, over FScale
PlaneNormal(nums, t) ==
    LET v1 == RowOf(nums, t[1], 3)
        v2 == RowOf(nums, t[2], 3)
        v3 == RowOf(nums, t[3], 3)
        c == IntCross(<<v2[1] - v1[1], v2[2] - v1[2], v2[3] - v1[3]>>,
                      <<v3[1] - v1[1], v3[2] - v1[2], v3[3] - v1[3]>>)
    IN  <<c[1] \div One, c[2] \div One, c[3] \div One>>

\* n is the unit vector of the direction c, up to the rounding of its
\* components
UnitAlong(n, c) ==
    /\ AllFinite(n)
    /\ \A k \in 1..3 : Abs(IntCross(n, c)[k]) <= Abs(c[1]) + Abs(c[2]) + Abs(c[3])
    /\ n[1] * c[1] + n[2] * c[2] + n[3] * c[3] > 0
    /\ Abs(n[1] * n[1] + n[2] * n[2] + n[3] * n[3] - One * One) <= 3 * One + 3

\* C9: computeNormals on a mesh of one triangle that is not degenerate, with
\* or without indices, gives its three vertices one and the same normal, the
\* unit vector along (v2 - v1) x (v3 - v1), and leaves the normal of every
\* other vertex zero.
C9_TriangleNormal ==
    [][(/\ last'.op = "computeNormals"
        /\ OnlyTriangle(last'.b) # <<>>
        /\ PlaneNormal(Positions(meshes, bufs, arrays, last'.b), OnlyTriangle(last'.b)) # Zero3)
       => LET m == last'.b
              t == OnlyTriangle(m)
              c == PlaneNormal(Positions(meshes, bufs, arrays, m), t)
              normals == Stream(meshes', bufs', arrays', m, "normals")
          IN  /\ last'.exc = ""
              /\ Len(normals) = 3 * VertexCount(m)
              /\ UnitAlong(RowOf(normals, t[1], 3), c)
              /\ RowOf(normals, t[2], 3) = RowOf(normals, t[1], 3)
              /\ RowOf(normals, t[3], 3) = RowOf(normals, t[1], 3)
              /\ \A i \in 0..(VertexCount(m) - 1) :
                    (i # t[1] /\ i # t[2] /\ i # t[3]) => RowOf(normals, i, 3) = Zero3]_vars

\* the triangle (0,0,0), (1,0,0), (0,1,0) got the normal (0,0,1) three times
C9_UnitZ ==
    /\ last.op = "computeNormals"
    /\ last.exc = ""
    /\ Positions(meshes, bufs, arrays, last.b) = Flat(<<P0, P1, P2>>)
    /\ Stream(meshes, bufs, arrays, last.b, "normals") = <<0, 0, One, 0, 0, One, 0, 0, One>>

\* the quad with one triangle over three of its vertices: the fourth has no
\* normal
C9_FourthVertexZero ==
    /\ last.op = "computeNormals"
    /\ last.exc = ""
    /\ VertexCount(last.b) = 4
    /\ IndexValues(last.b, "triangles") = <<0, 1, 2>>
    /\ RowOf(Stream(meshes, bufs, arrays, last.b, "normals"), 3, 3) = Zero3
    /\ RowOf(Stream(meshes, bufs, arrays, last.b, "normals"), 0, 3) = <<0, 0, One>>

(***************************************************************************)
(* The claim about the vertex counts of the streams, checked under         *)
(* SpecMesh.                                                               *)
(***************************************************************************)
\* the numbers of the 'vertices' buffer of mesh m, none when it has no such
\* buffer
VerticesOf(ms, bs, as, m) ==
    IF ~MapHas(ms[m].vertexBuffers, "vertices") THEN <<>>
    ELSE IF bs[MapGet(ms[m].vertexBuffers, "vertices")].data = Null THEN <<>>
    ELSE as[bs[MapGet(ms[m].vertexBuffers, "vertices")].data].vals

\* every vertex buffer of mesh m has data.length / spacing equal to the
\* vertex count of 'vertices'; a mesh without vertex buffers agrees
StreamsAgree(ms, bs, as, m) ==
    \A i \in 1..Len(ms[m].vertexBuffers) :
        LET B == bs[ms[m].vertexBuffers[i].buf]
        IN  /\ B.data # Null
            /\ Len(as[B.data].vals) * 3 = B.spacing * Len(VerticesOf(ms, bs, as, m))

\* C10: when the streams of every mesh have the vertex count of 'vertices',
\* they still have after computeNormals, computeTangents, computeIndices,
\* explodeIndices, computeTextureCoordinates or flipNormals has returned, and
\* so have the streams of the mesh that mergeMeshes or slice returned.
C10_VertexCountsAgree ==
    [][(/\ last'.op \in {"computeNormals", "computeTangents", "computeIndices",
                         "explodeIndices", "computeTextureCoordinates", "flipNormals",
                         "mergeMeshes", "slice"}
        /\ last'.exc = ""
        /\ \A m \in 1..Len(meshes) : StreamsAgree(meshes, bufs, arrays, m))
       => \A m \in 1..Len(meshes') : StreamsAgree(meshes', bufs', arrays', m)]_vars

\* computeTextureCoordinates returned and left 'coords' with the vertex
\* count the mesh had before its indices were exploded
C10_CoordsOfOldVertices ==
    /\ last.op = "computeTextureCoordinates"
    /\ last.exc = ""
    /\ Len(VerticesOf(meshes, bufs, arrays, last.b)) = 9
    /\ Len(Stream(meshes, bufs, arrays, last.b, "coords")) = 8
    /\ ~StreamsAgree(meshes, bufs, arrays, last.b)

(***************************************************************************)
(* Claims about buffers without local data, checked under SpecFree.        *)
(***************************************************************************)
\* C21: upload and uploadRange on a buffer without data throw and make no
\* call to the device, whatever the rest of the buffer is; freeData sets the
\* data of every vertex and index buffer of the mesh to null and leaves the
\* device buffer of each as it was, not deleted.
C21_NoDataFails ==
    [][/\ (last'.op \in {"upload", "uploadRange"} /\ bufs[last'.b].data = Null)
            => /\ last'.exc # ""
               /\ calls' = calls
       /\ last'.op = "freeData"
            => /\ last'.exc = ""
               /\ \A b \in BuffersOf(meshes[last'.b]) :
                     /\ bufs'[b].data = Null
                     /\ bufs'[b].buffer = bufs[b].buffer
               /\ dev' = dev
               /\ calls' = calls]_vars

\* upload returned without an exception on a buffer that has no data and no
\* context
C21_UploadReturned ==
    /\ last.op = "upload"
    /\ last.exc = ""
    /\ bufs[last.b].data = Null
    /\ bufs[last.b].gl = Null

\* upload threw on a buffer of a mesh whose data was freed
C21_UploadAfterFree ==
    /\ last.op = "upload"
    /\ last.exc = "No data supplied"
    /\ last.b \in BuffersOf(meshes[1])
    /\ bufs[last.b].buffer # Null
    /\ ~dev[bufs[last.b].buffer].deleted

(***************************************************************************)
(* Claims about writes of data a buffer cannot take, checked under         *)
(* SpecWrite.                                                              *)
(***************************************************************************)
\* buffer b has the same data with the same contents, the same spacing and
\* attribute, and its device buffer the same length and type, after the step
\* as before it
BufferKept(b) ==
    /\ bufs'[b].data = bufs[b].data
    /\ bufs[b].data # Null => arrays'[bufs[b].data] = arrays[bufs[b].data]
    /\ bufs'[b].spacing = bufs[b].spacing
    /\ bufs'[b].attribute = bufs[b].attribute
    /\ bufs'[b].buffer = bufs[b].buffer
    /\ bufs[b].buffer # Null
          => /\ dev'[bufs[b].buffer].length = dev[bufs[b].buffer].length
             /\ dev'[bufs[b].buffer].gl_type = dev[bufs[b].buffer].gl_type

\* C22: updateVertexBuffer and addBuffers on a stream the mesh has, setData
\* and fromJSON, given a plain array or a typed array of a kind upload does not
\* support, throw and leave the data, spacing and attribute of the buffer and
\* the length and type of its device buffer as they were.
C22_RefusedWriteKeepsBuffer ==
    [][(/\ last'.op \in {"updateVertexBuffer", "addBuffers", "setData", "fromJSON"}
        /\ \/ arrays'[last'.d].kind = "Array"
           \/ arrays'[last'.d].kind \notin SupportedKinds)
       => /\ last'.exc # ""
          /\ last'.op \in {"updateVertexBuffer", "addBuffers"}
                => \A b \in BuffersOf(meshes[last'.b]) : BufferKept(b)
          /\ last'.op \in {"setData", "fromJSON"} => BufferKept(last'.b)]_vars

\* updateVertexBuffer threw on a plain array after it had put the array, the
\* spacing and the attribute in the buffer
C22_PlainArrayStored ==
    /\ last.op = "updateVertexBuffer"
    /\ last.exc = "Buffers must be typed arrays"
    /\ \E b \in BuffersOf(meshes[last.b]) :
          /\ bufs[b].data = last.d
          /\ arrays[last.d].kind = "Array"
          /\ bufs[b].attribute = "a_given"
          /\ bufs[b].spacing = 1

(***************************************************************************)
(* Claims about Mesh.fromURL, checked under SpecLoad.                      *)
(***************************************************************************)
\* the parser filled mesh m
Populated(ms, m) == MapHas(ms[m].vertexBuffers, "vertices")

\* C23: when the fetch of a request with an on_complete finishes, on_complete
\* has been called once, with the mesh when the data arrived and the parser
\* filled it, with null when the fetch failed or the parser did not; the mesh
\* has ready false while the fetch is pending and no property ready after it;
\* without a parser for the extension fromURL returns null and starts no fetch.
C23_CompletedOnce ==
    [][/\ \A i \in 1..Len(loads) : loads[i].pending => loads[i].ready = "false"
       /\ last'.op = "fromURL"
            => IF toLowerCase(last'.d) \in Parsers
               THEN /\ last'.ret # Null
                    /\ loads' = Append(loads, loads'[last'.b])
                    /\ loads'[last'.b].mesh = last'.ret
                    /\ loads'[last'.b].pending
                    /\ loads'[last'.b].ready = "false"
                    /\ loads'[last'.b].completions = <<>>
               ELSE /\ last'.ret = Null
                    /\ loads' = loads
                    /\ meshes' = meshes
       /\ last'.op \in {"fetched", "fetch failed"}
            => /\ ~loads'[last'.b].pending
               /\ loads'[last'.b].ready = "deleted"
               /\ loads[last'.b].on_complete
                    => loads'[last'.b].completions =
                          <<IF last'.op = "fetched" /\ Populated(meshes', loads[last'.b].mesh)
                            THEN loads[last'.b].mesh ELSE Null>>]_vars

\* the data arrived and the parser threw: on_complete was not called and the
\* mesh still has ready false
C23_NeverCompleted ==
    /\ last.op = "fetched"
    /\ last.exc = "parser error"
    /\ loads[last.b].on_complete
    /\ ~loads[last.b].pending
    /\ loads[last.b].completions = <<>>
    /\ loads[last.b].ready = "false"

\* the data arrived and the parser filled the mesh: on_complete was called
\* once with the mesh
C23_CompletedWithMesh ==
    /\ last.op = "fetched"
    /\ last.exc = ""
    /\ Populated(meshes, loads[last.b].mesh)
    /\ loads[last.b].completions = <<loads[last.b].mesh>>
    /\ loads[last.b].ready = "deleted"

(***************************************************************************)
(* Claims about the bounding box, checked under SpecBox.                   *)
(***************************************************************************)
\* the numbers of the 'vertices' of mesh m
BoxVertices(m) == Nums(arrays[bufs[MapGet(meshes[m].vertexBuffers, "vertices")].data])

\* C24: when a component of the minimum or of the maximum of the vertices is
\* NaN, Infinity or -Infinity, computeBoundingBox gives the box with center
\* (0,0,0) and half-size (0,0,0), logs a warning and returns.
C24_NonFiniteGivesZeroBox ==
    [][(/\ last'.op = "computeBoundingBox"
        /\ Marked(last'.d, VertexCount(last'.b)) # {}
        /\ \E k \in 1..3 :
              \/ ~IsFinite(MinOver(BoxVertices(last'.b), Marked(last'.d, VertexCount(last'.b)), k))
              \/ ~IsFinite(MaxOver(BoxVertices(last'.b), Marked(last'.d, VertexCount(last'.b)), k))
              \/ \E i \in Marked(last'.d, VertexCount(last'.b)) :
                    isNaN(RowOf(BoxVertices(last'.b), i, 3)[k]))
       => /\ last'.exc = ""
          /\ last'.ret = 1
          /\ meshes'[last'.b].bounding.center = Zero3
          /\ meshes'[last'.b].bounding.halfsize = Zero3
          /\ Len(console') = Len(console) + 1]_vars

\* a vertex at Infinity left a box with an infinite center and no warning
C24_InfiniteBox ==
    /\ last.op = "computeBoundingBox"
    /\ last.exc = ""
    /\ ~last.d.has
    /\ BoxVertices(last.b) = Flat(<<P2, <<PInf, 0, 0>>>>)
    /\ meshes[last.b].bounding.center[1] = PInf
    /\ console = <<>>

\* a vertex with a NaN left the zero box and the warning
C24_NaNZeroBox ==
    /\ last.op = "computeBoundingBox"
    /\ ~last.d.has
    /\ BoxVertices(last.b) = Flat(<<P1, <<NaN, 0, One>>>>)
    /\ meshes[last.b].bounding.center = Zero3
    /\ meshes[last.b].bounding.halfsize = Zero3
    /\ console = <<"Warning: GL.Mesh has NaN values in vertices">>

\* C25: getBoundingBox on a mesh whose bounding box was never computed (a
\* mesh just made from its vertices) computes it: the box returned is the one
\* Mesh.computeBoundingBox gives for the 'vertices' of the mesh.
C25_BoxComputedOnDemand ==
    [][(/\ last'.op = "getBoundingBox"
        /\ steps = 0 \/ last.op = "getBoundingBox")
       => /\ last'.exc = ""
          /\ last'.d = computeBoundingBox([has |-> TRUE, nums |-> BoxVertices(last'.b)],
                                          BBox_create, NoMask).bb]_vars

\* getBoundingBox on the new mesh of (-1,-1,-1) and (1,1,1) returned the box
\* of zeros the constructor made
C25_ZeroBoxReturned ==
    /\ last.op = "getBoundingBox"
    /\ steps = 1
    /\ BoxVertices(last.b) = PMinus \o PPlus
    /\ last.d.center = Zero3
    /\ last.d.halfsize = Zero3
    /\ last.d.radius = 0

\* C26: computeBoundingBox with a mask that is not empty and marks no vertex
\* logs the warning 'mask contains only zeros', computes no box, leaves bb as
\* it was and returns nothing.
C26_ZerosMaskWarns ==
    [][(/\ last'.op = "computeBoundingBox"
        /\ last'.d.has
        /\ Len(last'.d.vals) > 0
        /\ \A i \in 1..Len(last'.d.vals) : last'.d.vals[i] = 0)
       => /\ last'.ret = 0
          /\ meshes'[last'.b].bounding = meshes[last'.b].bounding
          /\ console' = Append(console, "mask contains only zeros, no vertices marked")]_vars

\* with the mask [0, 0, 0] the call returned the box of vertex 0 and logged
\* nothing
C26_ZerosMaskBoxed ==
    /\ last.op = "computeBoundingBox"
    /\ last.d = [has |-> TRUE, vals |-> <<0, 0, 0>>]
    /\ last.ret = 1
    /\ BoxVertices(last.b) = Flat(<<P4, P2, P5>>)
    /\ meshes[last.b].bounding.center = P4
    /\ meshes[last.b].bounding.halfsize = Zero3
    /\ console = <<>>

(***************************************************************************)
(* Claims about DynamicMesh, checked under SpecDynamic.                    *)
(***************************************************************************)
\* the contents of the data array id of the DynamicMesh, <<>> when it has none
DataIn(as, id) == IF id = Null THEN <<>> ELSE as[id].vals

\* the contents of the four data arrays
PointData(as, d) ==
    <<DataIn(as, d.vertex_data), DataIn(as, d.normal_data), DataIn(as, d.coord_data),
      DataIn(as, d.color_data)>>

\* C27: current_pos of a DynamicMesh stays between 0 and max_size; addPoint
\* on a full DynamicMesh returns false with a warning and leaves current_pos
\* and the data as they were; addPoint on one that is not full writes the
\* vertex at slot current_pos, adds one to current_pos, sets the dirty flag and
\* returns true.
C27_PointsWithinCapacity ==
    [][/\ dynamic'.mesh # Null
            => dynamic'.current_pos >= 0 /\ dynamic'.current_pos <= dynamic'.max_size
       /\ (last'.op = "addPoint" /\ dynamic.current_pos = dynamic.max_size)
            => /\ last'.exc = ""
               /\ last'.ret = 0
               /\ Len(console') = Len(console) + 1
               /\ dynamic'.current_pos = dynamic.current_pos
               /\ PointData(arrays', dynamic') = PointData(arrays, dynamic)
       /\ (last'.op = "addPoint" /\ dynamic.current_pos < dynamic.max_size)
            => /\ last'.exc = ""
               /\ last'.ret = 1
               /\ dynamic'.current_pos = dynamic.current_pos + 1
               /\ dynamic'.must_update
               /\ \A k \in 1..3 :
                     DataIn(arrays', dynamic'.vertex_data)[3 * dynamic.current_pos + k]
                        \in {P1[k], P5[k], P2[k]}]_vars

\* addPoint on a full DynamicMesh threw a RangeError and left current_pos above
\* max_size
C27_PastCapacity ==
    /\ last.op = "addPoint"
    /\ last.exc = "RangeError"
    /\ dynamic.current_pos = dynamic.max_size + 1
    /\ console = <<>>

\* addPoint wrote the second point of a DynamicMesh of two
C27_SecondPoint ==
    /\ last.op = "addPoint"
    /\ last.ret = 1
    /\ dynamic.max_size = 2
    /\ dynamic.current_pos = 2
    /\ DataIn(arrays, dynamic.vertex_data) = P1 \o P5

(***************************************************************************)
(* C28: slice(start, length) returns a new mesh whose 'triangles' buffer   *)
(* holds the indices of the range [start, start + length) renumbered in    *)
(* order of first use, and whose vertex buffers hold, for every vertex the *)
(* range uses, the row of that vertex exactly once; the source mesh is     *)
(* left as it was.                                                         *)
(***************************************************************************)
\* the indices slice(start, length) reads from the list of indices
SliceRange(indices, start, length) ==
    IF start + length <= Len(indices)
    THEN SubSeq(indices, start + 1, start + length)
    ELSE SubSeq(indices, start + 1, Len(indices))

\* the row of vertex k is in the stream and is the row given
HasRow(nums, k, n, row) ==
    /\ k \in Nat
    /\ k * n + n <= Len(nums)
    /\ RowOf(nums, k, n) = row

\* C28: after slice on a mesh with triangles and matching vertex streams
\* the call returns a mesh with a 'triangles' buffer as long as the range,
\* every vertex stream of the new mesh holds at the new index the row the
\* source has at the old index, the new mesh has one vertex per distinct
\* index of the range, and the source mesh and its data are unchanged
C28_SliceKeepsVertices ==
    [][(/\ last'.op = "slice"
        /\ MapHas(meshes[last'.b].indexBuffers, "triangles")
        /\ MapHas(meshes[last'.b].vertexBuffers, "vertices")
        /\ StreamsAgree(meshes, bufs, arrays, last'.b))
       => LET m == last'.b
              old == SliceRange(IndexValues(m, "triangles"), last'.d, last'.n)
          IN  /\ last'.exc = ""
              /\ last'.ret \in 1..Len(meshes')
              /\ last'.ret # m
              /\ MapHas(meshes'[last'.ret].indexBuffers, "triangles")
              /\ LET new == arrays'[bufs'[MapGet(
                                meshes'[last'.ret].indexBuffers,
                                "triangles")].data].vals
                 IN  /\ Len(new) = Len(old)
                     /\ \A k \in 1..Len(old) :
                          \A i \in 1..Len(meshes[m].vertexBuffers) :
                             LET e == meshes[m].vertexBuffers[i]
                                 s == bufs[e.buf].spacing
                             IN  HasRow(Stream(meshes', bufs', arrays',
                                               last'.ret, e.name),
                                        new[k], s,
                                        RowOf(Stream(meshes, bufs, arrays,
                                                     m, e.name), old[k], s))
              /\ Len(Stream(meshes', bufs', arrays', last'.ret, "vertices"))
                   = 3 * Cardinality({old[k] : k \in 1..Len(old)})
              /\ meshes'[m] = meshes[m]
              /\ \A b \in BuffersOf(meshes[m]) :
                   /\ bufs'[b] = bufs[b]
                   /\ bufs[b].data # Null
                        => arrays'[bufs[b].data] = arrays[bufs[b].data]]_vars

\* a slice of a mesh whose triangle uses a vertex numbered past the length
\* of the list of indices: the new mesh's last index is not a new vertex
C28_VertexPastIndices ==
    /\ last.op = "slice"
    /\ last.exc = ""
    /\ last.d = 0
    /\ last.ret \in 1..Len(meshes)
    /\ IndexValues(last.b, "triangles") = <<1, 2, 3>>
    /\ IndexValues(last.ret, "triangles") = <<0, 1, 0>>
    /\ Stream(meshes, bufs, arrays, last.ret, "vertices") = P1 \o P2

\* a slice of a whole triangle: the new mesh holds its three vertices
C28_WholeTriangle ==
    /\ last.op = "slice"
    /\ last.exc = ""
    /\ last.d = 0
    /\ last.ret \in 1..Len(meshes)
    /\ IndexValues(last.b, "triangles") = <<2, 0, 1>>
    /\ IndexValues(last.ret, "triangles") = <<0, 1, 2>>
    /\ Stream(meshes, bufs, arrays, last.ret, "vertices") = P2 \o P0 \o P1

(***************************************************************************)
(* The application around the index loop of addBuffers: it holds a mesh, a *)
(* triangle without indices or a quad of two indexed triangles, and gives  *)
(* it index payloads of every form: a typed array, a flat array of         *)
(* numbers, an array of tuples and a GL.Buffer.                            *)
(***************************************************************************)
IndexNames == {"triangles", "lines"}

IndexKinds == {"Uint16Array", "Array"}

\* the indices of a payload, one number per index
IndexPayloads == {<<>>, <<0, 1, 2>>, <<2, 1, 0, 0, 1, 2>>}

\* the numbers of a list of indices
IndexNums(indices) == [i \in 1..Len(indices) |-> indices[i] * One]

\* mesh.addBuffers( null, { name: new kind( indices ) } ); last.d is the payload
MAddIndexArray(m, name, kind, indices) ==
    /\ steps < MaxSteps
    /\ Commit(Done(addBuffers(AllocArray(Heap, TypedOf(kind, IndexNums(indices))), m, <<>>,
                              <<[name |-> name, form |-> "array",
                                 ref |-> Len(arrays) + 1]>>)),
              "addBuffers", m,
              [name |-> name, form |-> "array", ref |-> Len(arrays) + 1], 0)

\* mesh.addBuffers( null, { name: [[a,b,c], ...] } ), the tuples being those
\* of the list of indices; last.d is the payload
MAddIndexNested(m, name, indices) ==
    /\ steps < MaxSteps
    /\ Commit(Done(addBuffers(AllocArray(Heap, TypedOf("Array", IndexNums(indices))), m, <<>>,
                              <<[name |-> name, form |-> "nested",
                                 ref |-> Len(arrays) + 1]>>)),
              "addBuffers", m,
              [name |-> name, form |-> "nested", ref |-> Len(arrays) + 1], 0)

\* mesh.addBuffers( null, { name: buffer } ) for an index buffer that holds
\* its data; last.d is the payload
MAddIndexBuffer(m, name, b) ==
    /\ steps < MaxSteps
    /\ bufs[b].target = "ELEMENT_ARRAY_BUFFER"
    /\ bufs[b].data # Null
    /\ Commit(Done(addBuffers(Heap, m, <<>>,
                              <<[name |-> name, form |-> "buffer", ref |-> b]>>)),
              "addBuffers", m, [name |-> name, form |-> "buffer", ref |-> b], 0)

InitIndex ==
    /\ \E inp \in {[vertices |-> <<P0, P1, P2>>, normals |-> FALSE,
                    coords |-> FALSE, triangles |-> <<>>],
                   [vertices |-> <<P0, P1, P2, P3>>, normals |-> FALSE,
                    coords |-> FALSE, triangles |-> <<0, 1, 2, 2, 1, 3>>]} :
         Holds(BuildMesh(inp))
    /\ last = NoCall
    /\ steps = 0
    /\ loads = <<>>
    /\ dynamic = NoDynamic

NextIndex ==
    \/ \E m \in 1..Len(meshes), name \in IndexNames, kind \in IndexKinds,
          indices \in IndexPayloads : MAddIndexArray(m, name, kind, indices)
    \/ \E m \in 1..Len(meshes), name \in IndexNames,
          indices \in IndexPayloads : MAddIndexNested(m, name, indices)
    \/ \E m \in 1..Len(meshes), name \in IndexNames,
          b \in 1..Len(bufs) : MAddIndexBuffer(m, name, b)

SpecIndex == InitIndex /\ [][NextIndex]_vars

\* the names of a map of buffers
NamesOf(map) == {map[i].name : i \in 1..Len(map)}

\* the numbers an index payload holds, flattened, in the heap given
PayloadNums(bs, as, p) ==
    IF p.form = "buffer" THEN Nums(as[bs[p.ref].data]) ELSE Nums(as[p.ref])

\* C29: after addBuffers with an index payload under the key k the mesh has
\* an index buffer named k that holds the flattened values of the payload in
\* order, and it has no index buffer under a name other than k and the
\* names it had before
C29_IndexBufferUnderKey ==
    [][last'.op = "addBuffers"
       => /\ last'.exc = ""
          /\ MapHas(meshes'[last'.b].indexBuffers, last'.d.name)
          /\ bufs'[MapGet(meshes'[last'.b].indexBuffers, last'.d.name)].data # Null
          /\ Nums(arrays'[bufs'[MapGet(meshes'[last'.b].indexBuffers,
                                       last'.d.name)].data])
               = PayloadNums(bufs', arrays', last'.d)
          /\ NamesOf(meshes'[last'.b].indexBuffers)
               \subseteq (NamesOf(meshes[last'.b].indexBuffers)
                            \cup {last'.d.name})]_vars

\* a payload of tuples given under 'lines' is stored under the name 10000
C29_NestedUnderOtherName ==
    /\ last.op = "addBuffers"
    /\ last.exc = ""
    /\ last.d.name = "lines"
    /\ last.d.form = "nested"
    /\ ~MapHas(meshes[last.b].indexBuffers, "lines")
    /\ MapHas(meshes[last.b].indexBuffers, "10000")
    /\ Nums(arrays[bufs[MapGet(meshes[last.b].indexBuffers, "10000")].data])
         = IndexNums(<<2, 1, 0, 0, 1, 2>>)

\* a typed array given under 'lines' is stored under 'lines'
C29_TypedUnderKey ==
    /\ last.op = "addBuffers"
    /\ last.exc = ""
    /\ last.d.name = "lines"
    /\ last.d.form = "array"
    /\ arrays[last.d.ref].kind = "Uint16Array"
    /\ NamesOf(meshes[last.b].indexBuffers) = {"lines"}
    /\ Nums(arrays[bufs[MapGet(meshes[last.b].indexBuffers, "lines")].data])
         = IndexNums(<<0, 1, 2>>)

(***************************************************************************)
(* C30: the bones of the mesh mergeMeshes makes of skinned meshes are the  *)
(* bones of the sources, each name once, in order of first appearance;     *)
(* the bone index of every vertex names in the merged list the bone it     *)
(* named in its source; the buffers of the sources are left as they were.  *)
(***************************************************************************)
\* the bones of the meshes of the list from position k on, one after the other
RECURSIVE BonesFrom(_, _)
BonesFrom(list, k) ==
    IF k > Len(list) THEN <<>>
    ELSE meshes[list[k]].bones \o BonesFrom(list, k + 1)

\* the names of rest that are not in seen, appended to seen at their first use
RECURSIVE FirstUses(_, _)
FirstUses(seen, rest) ==
    IF rest = <<>> THEN seen
    ELSE FirstUses(IF \E q \in 1..Len(seen) : seen[q] = Head(rest)
                   THEN seen ELSE Append(seen, Head(rest)),
                   Tail(rest))

\* the bone indices of mesh m in the buffers and arrays given
BoneIndices(ms, bs, as, m) ==
    IF ~MapHas(ms[m].vertexBuffers, "bone_indices") THEN <<>>
    ELSE as[bs[MapGet(ms[m].vertexBuffers, "bone_indices")].data].vals

\* C30: after mergeMeshes on a list of skinned meshes the call returns a mesh
\* whose bones are the distinct bone names of the list in order of first
\* appearance, every bone index copied from the k-th mesh names in the merged
\* bones the bone that index named in the k-th mesh, and the buffers and the
\* data of the meshes of the list are unchanged
C30_BonesMergedOnce ==
    [][(/\ last'.op = "mergeMeshes"
        /\ \A i \in 1..Len(last'.b) : meshes[last'.b[i]].hasBones)
       => LET list == last'.b
          IN  /\ last'.exc = ""
              /\ last'.ret \in 1..Len(meshes')
              /\ meshes'[last'.ret].bones = FirstUses(<<>>, BonesFrom(list, 1))
              /\ LET B == BoneIndices(meshes', bufs', arrays', last'.ret)
                     merged == meshes'[last'.ret].bones
                 IN  \A k \in 1..Len(list) :
                        LET src == BoneIndices(meshes, bufs, arrays, list[k])
                        IN  \A p \in 1..Len(src) :
                               LET at == 4 * VerticesBefore(list, k) + p
                               IN  /\ at <= Len(B)
                                   /\ B[at] + 1 <= Len(merged)
                                   /\ src[p] + 1 <= Len(meshes[list[k]].bones)
                                   /\ merged[B[at] + 1]
                                        = meshes[list[k]].bones[src[p] + 1]
              /\ \A k \in 1..Len(list) :
                    \A b \in BuffersOf(meshes[list[k]]) :
                       /\ bufs'[b] = bufs[b]
                       /\ bufs[b].data # Null
                            => arrays'[bufs[b].data] = arrays[bufs[b].data]]_vars

\* two skinned meshes that share the bone 'hip' were merged: the merged mesh
\* has the bone twice and the bone indices of the second source are now 1
C30_FirstBoneTwice ==
    /\ last.op = "mergeMeshes"
    /\ last.exc = ""
    /\ Len(last.b) = 2
    /\ last.b[1] # last.b[2]
    /\ meshes[last.b[1]].bones = <<"hip">>
    /\ meshes[last.b[2]].bones = <<"hip">>
    /\ last.ret \in 1..Len(meshes)
    /\ meshes[last.ret].bones = <<"hip", "hip">>
    /\ \A p \in 1..Len(BoneIndices(meshes, bufs, arrays, last.b[2])) :
          BoneIndices(meshes, bufs, arrays, last.b[2])[p] = 1
    /\ \A p \in 1..Len(BoneIndices(meshes, bufs, arrays, last.b[1])) :
          BoneIndices(meshes, bufs, arrays, last.b[1])[p] = 0

====
